---- MODULE Spec2Model ----
(***************************************************************************)
(* Lasso selection over a point cloud: the worker unit (point-worker.ts),  *)
(* the single-worker client (PointWorkerClient) and the worker pool        *)
(* (ParallelPointWorkerClient).                                            *)
(*                                                                         *)
(* Numbers are integers.  The projection and the containment test divide;  *)
(* the model keeps every quotient as numerator/denominator and compares    *)
(* by cross-multiplication, so it is exact where the code rounds.          *)
(***************************************************************************)
EXTENDS Integers, Sequences, FiniteSets, TLC

\* ------------------------------------------------------------------ bounds
MaxWorkers == 2
MaxPoints == 3
MaxCalls == 6
MaxOps == 3
MaxCrashes == 1
MaxPartCount == 7
MaxPartWorkers == 4
MantissaBits == 3
\* The most elements a Set holds: 2^24 in the build.
SetMaxSize == 2

\* ------------------------------------------------------------------ state
Units == 1..MaxWorkers

VARIABLES
    client,         \* which client the page constructed: "single" or "pool"
    workerCount,    \* ParallelPointWorkerClient.workerCount
    workers,        \* ParallelPointWorkerClient.workers (unit ids, in worker order)
    poolPointCount, \* ParallelPointWorkerClient.pointCount
    requestId,      \* per unit: SingleWorker.requestId
    pending,        \* per unit: keys of SingleWorker.pending
    calls,          \* per unit: the promise of every call made, by request id
    ops,            \* the client-level operations (init, select, color) awaiting their calls
    inbox,          \* per unit: messages posted to the worker, not yet handled
    events,         \* per unit: events queued for the client (responses, error)
    alive,          \* per unit: the worker runs
    terminated,     \* per unit: terminate() was called on it
    positions,      \* per unit: the worker's positions
    colors,         \* per unit: the worker's colors
    pointCount,     \* per unit: the worker's pointCount
    failed,         \* per unit: it threw or crashed since init was last called on it
    pCount, pWorkers, pIndex, pRanges, \* the dispatch loop of select, on its own
    pure,           \* a function of the program on its own: its input and, once applied, its output
    page,           \* the state of Home: the point cloud, the selection, the mode, what each handler awaits
    moved,          \* per side (0 the main thread, u worker u): the buffers it sent in a transfer list
    staleRead       \* the buffers a side read or wrote after sending them in a transfer list

vars == <<client, workerCount, workers, poolPointCount, requestId, pending, calls, ops,
          inbox, events, alive, terminated, positions, colors, pointCount, failed,
          pCount, pWorkers, pIndex, pRanges, pure, page, moved, staleRead>>

clientVars == <<client, workerCount, workers, poolPointCount, requestId, pending, calls, ops>>
unitVars == <<positions, colors, pointCount>>
partVars == <<pCount, pWorkers, pIndex, pRanges>>
PureIdle == [kind |-> "idle"]
pageVars == <<page, staleRead>>
Sides == 0..MaxWorkers

\* ------------------------------------------------------------------ helpers
Range(s) == {s[i] : i \in 1..Len(s)}

Min2(a, b) == IF a < b THEN a ELSE b

RECURSIVE Flatten(_)
Flatten(ss) == IF ss = <<>> THEN <<>> ELSE Head(ss) \o Flatten(Tail(ss))

Undefined == -1

StrictlyAscending(s) == \A i \in 1..Len(s) - 1 : s[i] < s[i + 1]

\* ------------------------------------------------------------------ data
\* A buffer reference is null or holds a flat sequence of numbers.
NullBuf == [null |-> TRUE, data |-> <<>>]
Buf(s) == [null |-> FALSE, data |-> s]

\* Four kinds of point under the identity matrix and a 10x10 viewport:
\* (0,0,0) and (0,0,-1) project to (5,5); (2,-2,0) to (15,15); (0,0,1) has
\* ndc.z = 1.
PointPattern == << <<0, 0, 0>>, <<2, -2, 0>>, <<0, 0, -1>>, <<0, 0, 1>> >>
PointAt(i, shift) == PointPattern[((i + shift) % 4) + 1]

RECURSIVE FlatPoints(_, _, _)
FlatPoints(i, n, shift) ==
    IF i >= n THEN <<>> ELSE PointAt(i, shift) \o FlatPoints(i + 1, n, shift)

\* PointCloudData: positions and colors of length 3*count; the decoder's
\* default color is white.
MkCloud(n, shift) ==
    [positions |-> FlatPoints(0, n, shift),
     colors |-> [k \in 1..(3 * n) |-> 1],
     count |-> n]

Clouds == {MkCloud(0, 0), MkCloud(MaxPoints, 0), MkCloud(MaxPoints - 1, 1)}

IdentityMatrix == <<1, 0, 0, 0,  0, 1, 0, 0,  0, 0, 1, 0,  0, 0, 0, 1>>
ShortMatrix == <<1, 0, 0, 0,  0, 1, 0, 0,  0, 0, 1, 0,  0, 0, 0>>
SquarePath == << <<0, 0>>, <<10, 0>>, <<10, 10>>, <<0, 10>> >>
TwoPointPath == << <<0, 0>>, <<10, 10>> >>

MkQuery(p, m, w, h) == [path |-> p, viewProjectionMatrix |-> m, viewport |-> [width |-> w, height |-> h]]

QSquare == MkQuery(SquarePath, IdentityMatrix, 10, 10)
QShortPath == MkQuery(TwoPointPath, IdentityMatrix, 10, 10)
QZeroWidth == MkQuery(SquarePath, IdentityMatrix, 0, 10)
QZeroHeight == MkQuery(SquarePath, IdentityMatrix, 10, 0)
QBadMatrix == MkQuery(SquarePath, ShortMatrix, 10, 10)
Queries == {QSquare, QShortPath, QZeroWidth, QZeroHeight, QBadMatrix}

\* ------------------------------------------------------------------ kernel
\* point-worker.ts isPointInPolygon, at the point (pxn/pxd, pyn/pyd) with
\* positive denominators.  Edge i runs from path[j] to path[i], j = i - 1
\* wrapping to the last point.
EdgeCrosses(pxn, pxd, pyn, pyd, xi, yi, xj, yj) ==
    /\ (yi * pyd > pyn) # (yj * pyd > pyn)
    /\ LET a == (xj - xi) * (pyn - yi * pyd)
           b == pyd * (yj - yi)
           lhs == pxn - xi * pxd
       IN  IF b > 0 THEN lhs * b < a * pxd ELSE lhs * b > a * pxd

\* The loop without the edge that closes the polygon: j starts at the
\* first point in the place of the last.
RECURSIVE PolygonLoopOpenPath(_, _, _, _, _, _, _, _)
PolygonLoopOpenPath(pxn, pxd, pyn, pyd, path, i, j, inside) ==
    IF i > Len(path) THEN inside
    ELSE LET k == IF j = Len(path) /\ i = 1 THEN 1 ELSE j
             intersect == EdgeCrosses(pxn, pxd, pyn, pyd, path[i][1], path[i][2], path[k][1], path[k][2])
         IN  PolygonLoopOpenPath(pxn, pxd, pyn, pyd, path, i + 1, i,
                                 IF intersect THEN ~inside ELSE inside)

\* for (i = 0, j = n - 1; i < n; j = i++): edge i toggles inside when it
\* crosses the ray (indices from 1 here).
RECURSIVE PolygonLoop(_, _, _, _, _, _, _, _)
PolygonLoop(pxn, pxd, pyn, pyd, path, i, j, inside) ==
    IF i > Len(path) THEN inside
    ELSE LET intersect == EdgeCrosses(pxn, pxd, pyn, pyd, path[i][1], path[i][2], path[j][1], path[j][2])
         IN  PolygonLoop(pxn, pxd, pyn, pyd, path, i + 1, i,
                         IF intersect THEN ~inside ELSE inside)

isPointInPolygon(pxn, pxd, pyn, pyd, path) ==
    PolygonLoop(pxn, pxd, pyn, pyd, path, 1, Len(path), FALSE)

\* The early return without the test of viewport.height.
IsDegenerateIgnoresHeight(q) ==
    \/ Len(q.path) < 3
    \/ q.viewport.width = 0
    \/ Len(q.viewProjectionMatrix) # 16

\* The early return without the test of viewport.width.
IsDegenerateIgnoresWidth(q) ==
    \/ Len(q.path) < 3
    \/ q.viewport.height = 0
    \/ Len(q.viewProjectionMatrix) # 16

\* The early return of handleSelect.
IsDegenerate(q) ==
    \/ Len(q.path) < 3
    \/ q.viewport.width = 0
    \/ q.viewport.height = 0
    \/ Len(q.viewProjectionMatrix) # 16

PathMin(path, c) == CHOOSE v \in {path[i][c] : i \in 1..Len(path)} : \A i \in 1..Len(path) : v <= path[i][c]

PathMax(path, c) == CHOOSE v \in {path[i][c] : i \in 1..Len(path)} : \A i \in 1..Len(path) : v >= path[i][c]

\* A Float32Array stores the nearest value a float of MantissaBits
\* significant bits holds, ties to the even one (24 bits in the build, fewer
\* here): every integer below 2^MantissaBits in magnitude, then every
\* second one, every fourth one, ...
RECURSIVE FloatStep(_, _)
FloatStep(n, s) == IF n < (2 ^ MantissaBits) * s THEN s ELSE FloatStep(n, 2 * s)

RoundTo(n, s) ==
    LET lo == (n \div s) * s
        r == n - lo
    IN  IF 2 * r < s THEN lo
        ELSE IF 2 * r > s THEN lo + s
        ELSE IF (lo \div s) % 2 = 0 THEN lo ELSE lo + s

Fround(n) == IF n < 0 THEN 0 - RoundTo(0 - n, FloatStep(0 - n, 1)) ELSE RoundTo(n, FloatStep(n, 1))

\* pathXs and pathYs of handleSelect: the path stored in two Float32Arrays.
PathFloats(path) == [i \in 1..Len(path) |-> <<Fround(path[i][1]), Fround(path[i][2])>>]

\* The matrix read row by row.
ClipRowMajor(e, x, y, z) ==
    <<e[1] * x + e[2] * y + e[3] * z + e[4],
      e[5] * x + e[6] * y + e[7] * z + e[8],
      e[9] * x + e[10] * y + e[11] * z + e[12],
      e[13] * x + e[14] * y + e[15] * z + e[16]>>

\* clipX, clipY, clipZ, clipW: the matrix is column-major, m00 = e[0] ...
\* m33 = e[15] (indices from 1 here).
Clip(e, x, y, z) ==
    <<e[1] * x + e[5] * y + e[9] * z + e[13],
      e[2] * x + e[6] * y + e[10] * z + e[14],
      e[3] * x + e[7] * y + e[11] * z + e[15],
      e[4] * x + e[8] * y + e[12] * z + e[16]>>

\* One iteration of the sweep of handleSelect: is point i selected.  A read
\* past the end of the buffer yields NaN, and NaN fails every comparison,
\* the containment test included.  The bounding box is taken from the path
\* as it came, the containment test reads pathXs and pathYs.
PointSelected(pos, i, q) ==
    IF 3 * i + 3 > Len(pos) THEN FALSE
    ELSE
    LET clip == Clip(q.viewProjectionMatrix, pos[3 * i + 1], pos[3 * i + 2], pos[3 * i + 3])
        clipX == clip[1]
        clipY == clip[2]
        clipZ == clip[3]
        clipW == clip[4]
        sgn == IF clipW > 0 THEN 1 ELSE -1
        \* screenX = (clipX/clipW + 1) * 0.5 * width, over a positive denominator
        sxn == sgn * (clipX + clipW) * q.viewport.width
        syn == sgn * (clipW - clipY) * q.viewport.height
        den == sgn * 2 * clipW
    IN  /\ clipW # 0
        /\ ~(sgn * clipZ >= sgn * clipW)
        /\ ~(\/ sxn < PathMin(q.path, 1) * den
             \/ sxn > PathMax(q.path, 1) * den
             \/ syn < PathMin(q.path, 2) * den
             \/ syn > PathMax(q.path, 2) * den)
        /\ isPointInPolygon(sxn, den, syn, den, PathFloats(q.path))

\* The loop from 0 to the end of the buffer.
RECURSIVE SweepAll(_, _, _)
SweepAll(pos, i, q) ==
    IF 3 * i + 3 > Len(pos) THEN <<>>
    ELSE (IF PointSelected(pos, i, q) THEN <<i>> ELSE <<>>) \o SweepAll(pos, i + 1, q)

\* The sweep of the whole buffer, whatever the range.
SweepWholeCloud(pos, i, rangeEnd, q) == SweepAll(pos, 0, q)

RECURSIVE Sweep(_, _, _, _)
Sweep(pos, i, rangeEnd, q) ==
    IF i >= rangeEnd THEN <<>>
    ELSE (IF PointSelected(pos, i, q) THEN <<i>> ELSE <<>>) \o Sweep(pos, i + 1, rangeEnd, q)

\* The points whose coordinates the loop of handleSelect reads: positions[3i],
\* positions[3i + 1] and positions[3i + 2] for every i it passes.
RECURSIVE SweepReads(_, _)
SweepReads(i, rangeEnd) ==
    IF i >= rangeEnd THEN {} ELSE {i} \cup SweepReads(i + 1, rangeEnd)

\* handleSelect on an initialized unit: the indices, the number of points
\* the sweep visited and the points it read.
handleSelect(pos, count, q, startIndex, endIndex) ==
    IF IsDegenerate(q) THEN [indices |-> <<>>, visited |-> 0, read |-> {}]
    ELSE [indices |-> Sweep(pos, startIndex, endIndex, q),
          visited |-> IF endIndex > startIndex THEN endIndex - startIndex ELSE 0,
          read |-> SweepReads(startIndex, endIndex)]

\* ------------------------------------------------------------------ decoder
\* parseHeader / parsePCD of pcd-parser.ts; parseHeader / handleParse of
\* point-worker.ts are the same code.
\*
\* A field of a record as the file holds it, a token of an ASCII line or
\* four bytes of a binary row: "num" a finite number v, "nan" text that is
\* no number or a NaN, "inf" Infinity, "rgb" the float whose 32-bit pattern
\* is the bytes v = <<a, r, g, b>>, a the highest.
Num(v) == [k |-> "num", v |-> v]
NaNField == [k |-> "nan", v |-> 0]
InfField == [k |-> "inf", v |-> 0]
Rgba(a, r, g, b) == [k |-> "rgb", v |-> <<a, r, g, b>>]
Rgb(r, g, b) == Rgba(0, r, g, b)
\* A part of an ASCII line that starts as the number v and goes on with
\* other characters, such as "1abc".
Trailing(v) == [k |-> "trail", v |-> v]

\* Number.parseFloat reads the longest prefix that is a number.
parseFloat(part) == IF part.k = "trail" THEN Num(part.v) ELSE part

\* isNaN of the parsed field: an exponent of all ones with a mantissa # 0
IsNaN(f) ==
    \/ f.k = "nan"
    \/ f.k = "rgb" /\ f.v[1] % 128 = 127 /\ f.v[2] >= 128
                   /\ (f.v[2] % 128 # 0 \/ f.v[3] # 0 \/ f.v[4] # 0)

\* The number as the Float32Array of the result holds it.
Stored(f) ==
    CASE f.k = "num" -> Fround(f.v)
      [] f.k = "inf" -> "Infinity"
      [] OTHER -> f

RECURSIVE Log2Floor(_)
Log2Floor(m) == IF m < 2 THEN 0 ELSE 1 + Log2Floor(m \div 2)

\* The low 24 bits of the float32 pattern of an integer of magnitude below
\* 2^24: the last bit of the biased exponent and the 23 bits of the fraction.
FloatLow24(v) ==
    LET m == IF v < 0 THEN 0 - v ELSE v
        e == Log2Floor(m)
    IN  IF m = 0 THEN 0
        ELSE ((e + 127) % 2) * (2 ^ 23) + (m - 2 ^ e) * (2 ^ (23 - e))

\* The build's choice for the bits of a NaN that goes through a number: an
\* engine keeps its payload and sets the quiet bit, or stores the one
\* canonical NaN 0x7fc00000.  Drawn with the input of the decoder on its own.
KeepsNaNPayload == "nan" \in DOMAIN pure /\ pure.nan = "quiet"

\* Bits 16..23 of a NaN pattern stored with its payload kept: bit 22 set.
Quieted(byte) == IF (byte \div 64) % 2 = 0 THEN byte + 64 ELSE byte

\* intVal & 0xffffff of new Float32Array([rgb]) read back as an Int32.
Low24(f) ==
    CASE f.k = "rgb" /\ ~IsNaN(f) -> f.v[2] * 65536 + f.v[3] * 256 + f.v[4]
      [] f.k = "rgb" /\ IsNaN(f) /\ KeepsNaNPayload -> Quieted(f.v[2]) * 65536 + f.v[3] * 256 + f.v[4]
      [] f.k = "num" -> FloatLow24(f.v)
      [] f.k = "inf" -> 128 * 65536
      [] OTHER -> 192 * 65536

\* A channel byte / 255
Channel(byte) == IF byte = 255 THEN 1 ELSE IF byte = 0 THEN 0 ELSE <<byte, 255>>

\* ((intVal >> 16) & 0xff) / 255, ((intVal >> 8) & 0xff) / 255, (intVal & 0xff) / 255
DecodeRgb(f) ==
    <<Channel(Low24(f) \div 65536), Channel((Low24(f) \div 256) % 256), Channel(Low24(f) % 256)>>

\* A header line: its first word, the words after it, its length in UTF-16
\* code units and in bytes of UTF-8, the newline not counted.
WideLine(key, args, chars, bytes) == [key |-> key, args |-> args, chars |-> chars, bytes |-> bytes]
Line(key, args) == WideLine(key, args, 7, 7)

ApplyLine(h, line) ==
    LET at == [h EXCEPT !.headerLen = @ + line.chars + 1]
    IN
    CASE line.key = "FIELDS" -> [at EXCEPT !.fields = line.args]
      [] line.key = "SIZE" -> [at EXCEPT !.size = line.args]
      [] line.key = "COUNT" -> [at EXCEPT !.count = line.args]
      [] line.key = "POINTS" -> [at EXCEPT !.points = line.args[1]]
      [] line.key = "DATA" -> [at EXCEPT !.data = line.args[1], !.dataSeen = TRUE]
      [] OTHER -> at

\* for (const line of lines) ... if (parts[0] === "DATA") break
RECURSIVE ReadLines(_, _)
ReadLines(h, lines) ==
    IF lines = <<>> THEN h
    ELSE IF Head(lines).key = "DATA" THEN ApplyLine(h, Head(lines))
    ELSE ReadLines(ApplyLine(h, Head(lines)), Tail(lines))

\* header.size[i] * (header.count[i] || 1), fields from 1 here
FieldWidth(h, i) ==
    h.size[i] * (IF i <= Len(h.count) /\ h.count[i] # 0 THEN h.count[i] ELSE 1)

\* offset when the loop of parseHeader reaches field i
RECURSIVE OffsetBefore(_, _)
OffsetBefore(h, i) == IF i <= 1 THEN 0 ELSE OffsetBefore(h, i - 1) + FieldWidth(h, i - 1)

\* header.offset[name]: the last field of that name, Undefined without one
OffsetOf(h, name) ==
    LET at == {i \in 1..Len(h.fields) : h.fields[i] = name}
    IN  IF at = {} THEN Undefined
        ELSE OffsetBefore(h, CHOOSE i \in at : \A j \in at : j <= i)

\* header.fields.indexOf(name): the first field of that name from 0, or -1
IndexOf(fields, name) ==
    LET at == {i \in 1..Len(fields) : fields[i] = name}
    IN  IF at = {} THEN -1 ELSE (CHOOSE i \in at : \A j \in at : i <= j) - 1

parseHeader(lines) ==
    LET h == ReadLines([fields |-> <<>>, size |-> <<>>, count |-> <<>>, points |-> 0,
                        data |-> "ascii", dataSeen |-> FALSE, headerLen |-> 0], lines)
    IN  [fields |-> h.fields, size |-> h.size, count |-> h.count, points |-> h.points,
         data |-> h.data, dataSeen |-> h.dataSeen, headerLen |-> h.headerLen,
         rowSize |-> OffsetBefore(h, Len(h.fields) + 1)]

\* parseFloat(parts[index]): a part that is not there parses to NaN
Part(row, index) == IF index >= 0 /\ index < Len(row) THEN parseFloat(row[index + 1]) ELSE NaNField

\* What one ASCII line after DATA adds to positions and colors.
AsciiRow(h, row) ==
    LET x == Part(row, IndexOf(h.fields, "x"))
        y == Part(row, IndexOf(h.fields, "y"))
        z == Part(row, IndexOf(h.fields, "z"))
        rgbIndex == IndexOf(h.fields, "rgb")
    IN  IF Len(row) < 3 \/ IsNaN(x) \/ IsNaN(y) \/ IsNaN(z)
        THEN [positions |-> <<>>, colors |-> <<>>]
        ELSE [positions |-> <<Stored(x), Stored(y), Stored(z)>>,
              colors |-> IF rgbIndex # -1 /\ rgbIndex < Len(row)
                         THEN DecodeRgb(parseFloat(row[rgbIndex + 1])) ELSE <<1, 1, 1>>]

\* The byte offsets of x, y, z in a row: header.offset[name] ?? default
CoordOffsets(h) ==
    <<IF OffsetOf(h, "x") = Undefined THEN 0 ELSE OffsetOf(h, "x"),
      IF OffsetOf(h, "y") = Undefined THEN 4 ELSE OffsetOf(h, "y"),
      IF OffsetOf(h, "z") = Undefined THEN 8 ELSE OffsetOf(h, "z")>>

\* dataView.getFloat32(byte, true) on a payload of four-byte cells, the view
\* starting at the payload; a read past its end throws a RangeError.
InView(cells, byte) == byte >= 0 /\ byte + 4 <= 4 * Len(cells)
GetFloat32(cells, byte) == cells[(byte \div 4) + 1]

\* Row i of a binary payload is skipped: one of x, y, z is NaN.
BinarySkips(h, cells, i) ==
    \E c \in 1..3 : IsNaN(GetFloat32(cells, i * h.rowSize + CoordOffsets(h)[c]))

\* Row i is read without a RangeError.
BinaryReads(h, cells, i) ==
    /\ \A c \in 1..3 : InView(cells, i * h.rowSize + CoordOffsets(h)[c])
    /\ (~BinarySkips(h, cells, i) /\ OffsetOf(h, "rgb") # Undefined)
           => InView(cells, i * h.rowSize + OffsetOf(h, "rgb"))

BinaryRow(h, cells, i) ==
    IF BinarySkips(h, cells, i) THEN [positions |-> <<>>, colors |-> <<>>]
    ELSE [positions |-> [c \in 1..3 |-> Stored(GetFloat32(cells, i * h.rowSize + CoordOffsets(h)[c]))],
          colors |-> IF OffsetOf(h, "rgb") # Undefined
                     THEN DecodeRgb(GetFloat32(cells, i * h.rowSize + OffsetOf(h, "rgb")))
                     ELSE <<1, 1, 1>>]

\* Where the payload starts in the file: the bytes of the lines up to and
\* with the DATA line, each with its newline.
RECURSIVE BodyStart(_)
BodyStart(lines) ==
    IF lines = <<>> THEN 0
    ELSE IF Head(lines).key = "DATA" THEN Head(lines).bytes + 1
    ELSE Head(lines).bytes + 1 + BodyStart(Tail(lines))

\* The last four bytes of the header, "ary" and the newline of "DATA binary",
\* as getFloat32 reads them, little-endian.
TextCell == [k |-> "rgb", v |-> <<10, 121, 114, 97>>]

\* new DataView(arrayBuffer, header.headerLen): the file from byte headerLen,
\* in cells of four bytes.  headerLen counts code units, the payload starts
\* after the header's bytes: the view starts with the header's tail when the
\* two differ (by a multiple of four in the files here).
View(file, h) ==
    [i \in 1..((BodyStart(file.lines) - h.headerLen) \div 4) |-> TextCell] \o file.cells

\* parsePCD: thrown says that it threw, data is what it returns otherwise.
\* ASCII lines count after a line starting with DATA only.
parsePCD(file) ==
    LET h == parseHeader(file.lines)
        dataView == View(file, h)
        rows == IF h.data = "ascii"
                THEN IF h.dataSeen THEN [i \in 1..Len(file.rows) |-> AsciiRow(h, file.rows[i])] ELSE <<>>
                ELSE IF h.data = "binary"
                THEN [i \in 1..h.points |-> BinaryRow(h, dataView, i - 1)]
                ELSE <<>>
        pos == Flatten([i \in 1..Len(rows) |-> rows[i].positions])
        cols == Flatten([i \in 1..Len(rows) |-> rows[i].colors])
    IN  IF h.data = "binary" /\ \E i \in 0..(h.points - 1) : ~BinaryReads(h, dataView, i)
        THEN [thrown |-> TRUE, data |-> [positions |-> <<>>, colors |-> <<>>, count |-> 0]]
        ELSE [thrown |-> FALSE,
              data |-> [positions |-> pos, colors |-> cols, count |-> Len(pos) \div 3]]

\* ------------------------------------------------------------------ partition
\* Math.floor in the place of Math.ceil.
ChunkSizeFloor(count, wc) == count \div wc

\* ParallelPointWorkerClient.select: Math.ceil(pointCount / workerCount)
ChunkSize(count, wc) == (count + wc - 1) \div wc

StartIndex(k, count, wc) == k * ChunkSize(count, wc)
EndIndex(k, count, wc) == Min2(StartIndex(k, count, wc) + ChunkSize(count, wc), count)
\* The test of the skipped slot one point too early.
SlotSkippedOffByOne(k, count, wc) == StartIndex(k, count, wc) + 1 >= count

\* the slot of worker k is skipped (resolved at once with no indices)
SlotSkipped(k, count, wc) == StartIndex(k, count, wc) >= count

\* ------------------------------------------------------------------ promises
\* Promise.allSettled: a rejected promise counts as done.
PromiseAllSettled(states) ==
    IF \A i \in 1..Len(states) : states[i] # "pending" THEN "resolved" ELSE "waiting"

\* Promise.any / race: the first resolved promise resolves the whole.
PromiseAny(states) ==
    IF \E i \in 1..Len(states) : states[i] = "rejected" THEN "rejected"
    ELSE IF states = <<>> \/ \E i \in 1..Len(states) : states[i] = "resolved" THEN "resolved"
    ELSE "waiting"

\* Promise.all over the promises of an operation: rejected as soon as one is
\* rejected, resolved once all are resolved.
PromiseAll(states) ==
    IF \E i \in 1..Len(states) : states[i] = "rejected" THEN "rejected"
    ELSE IF \A i \in 1..Len(states) : states[i] = "resolved" THEN "resolved"
    ELSE "waiting"

\* A slot of an operation is a call (unit, id) or, with id = 0, a promise
\* that was created resolved (Promise.resolve of an empty result).
SlotState(cs, slot) == IF slot.id = 0 THEN "resolved" ELSE cs[slot.unit][slot.id].state
\* The skipped slot resolved with new Uint32Array(1), one index 0, in the
\* place of new Uint32Array().
SlotIndicesZeroFilled(cs, slot) == IF slot.id = 0 THEN <<0>> ELSE cs[slot.unit][slot.id].value

SlotIndices(cs, slot) == IF slot.id = 0 THEN <<>> ELSE cs[slot.unit][slot.id].value

\* The partial results in the order the responses arrived.
MergeOrderByArrival(op) ==
    op.arrivals \o [j \in 1..Cardinality((1..Len(op.slots)) \ Range(op.arrivals)) |->
                      CHOOSE k \in (1..Len(op.slots)) \ Range(op.arrivals) : TRUE]

\* The merge of ParallelPointWorkerClient.select: the partial results in the
\* order of the results array, which is the order of the workers.
MergeOrder(op) == [i \in 1..Len(op.slots) |-> i]

mergedIndices(cs, op) ==
    LET order == MergeOrder(op)
    IN  Flatten([i \in 1..Len(order) |-> SlotIndices(cs, op.slots[order[i]])])

\* The init that returns the count of its own data.
OpResultOwnCount(cs, op, count) ==
    IF op.kind = "select" /\ op.pool THEN mergedIndices(cs, op)
    ELSE IF op.kind = "init" /\ op.pool THEN <<op.count>>
    ELSE SlotIndices(cs, op.slots[1])

\* What the operation resolves with; count is this.pointCount of the pool
\* when the operation goes on after its await: init returns
\* { count: this.pointCount }, the count of the latest init called.
OpResult(cs, op, count) ==
    IF op.kind = "select" /\ op.pool THEN mergedIndices(cs, op)
    ELSE IF op.kind = "init" /\ op.pool THEN <<count>>
    ELSE SlotIndices(cs, op.slots[1])

\* The continuation of every operation after the calls in cs settled: the
\* microtasks that run before the next event is handled.
Settle(cs, os, count) ==
    [i \in 1..Len(os) |->
        LET newly == {k \in 1..Len(os[i].slots) :
                        os[i].slots[k].id # 0 /\ SlotState(cs, os[i].slots[k]) # "pending"}
                     \ Range(os[i].arrivals)
            op == IF newly = {} THEN os[i]
                  ELSE [os[i] EXCEPT !.arrivals = @ \o [j \in 1..1 |-> CHOOSE k \in newly : TRUE]]
            st == PromiseAll([k \in 1..Len(op.slots) |-> SlotState(cs, op.slots[k])])
        IN  IF op.state # "waiting" THEN op
            ELSE [op EXCEPT !.state = st,
                            !.result = IF st = "resolved" THEN OpResult(cs, op, count) ELSE <<>>]]

\* ------------------------------------------------------------------ calls
\* SingleWorker.call / PointWorkerClient.call on every unit of targets:
\* a fresh id, a pending entry, a message to the worker.
\* init with the buffers of the point cloud in a transfer list.
TransferListWithCloud(kind, opIndex) ==
    IF kind = "color" THEN {<<"indices", opIndex>>}
    ELSE IF kind = "init" THEN {<<"positions", 0>>, <<"colors", 0>>}
    ELSE {}

\* The transferables handed to call: [payload.indices.buffer] by
\* PointWorkerClient.color, none by init and select of either client.
\* <<"positions", 0>> and <<"colors", 0>> name the buffers of a side's point
\* cloud, <<"indices", i>> the indicesArray of operation i.
TransferList(kind, opIndex) ==
    IF kind = "color" THEN {<<"indices", opIndex>>} ELSE {}

NewCall(type, opIndex) ==
    [type |-> type, op |-> opIndex, state |-> "pending", value |-> <<>>, afterFailure |-> FALSE]

CanCall(targets) == \A u \in targets : requestId[u] < MaxCalls

Call(targets, type, payload, opIndex) ==
    /\ requestId' = [u \in DOMAIN requestId |-> IF u \in targets THEN requestId[u] + 1 ELSE requestId[u]]
    /\ pending' = [u \in DOMAIN requestId |-> IF u \in targets THEN pending[u] \cup {requestId[u] + 1} ELSE pending[u]]
    /\ calls' = [u \in DOMAIN requestId |->
                    IF u \in targets
                    THEN Append(calls[u], [NewCall(type, opIndex) EXCEPT !.afterFailure = failed[u] /\ type # "init"])
                    ELSE calls[u]]
    /\ inbox' = [u \in DOMAIN requestId |->
                    IF u \in targets /\ alive[u]
                    THEN Append(inbox[u], [id |-> requestId[u] + 1, type |-> type, payload |-> payload[u]])
                    ELSE inbox[u]]
    /\ failed' = [u \in DOMAIN requestId |-> IF u \in targets /\ type = "init" THEN FALSE ELSE failed[u]]
    /\ moved' = [moved EXCEPT ![0] = @ \cup TransferList(type, opIndex)]

NewOp(kind, isPool, slots, q, count) ==
    [kind |-> kind, pool |-> isPool, slots |-> slots, q |-> q, count |-> count,
     arrivals |-> <<>>, state |-> "waiting", result |-> <<>>]

NoQuery == MkQuery(<<>>, <<>>, 0, 0)

\* ParallelPointWorkerClient.init
PoolInit(data) ==
    /\ client = "pool"
    /\ CanCall(Range(workers))
    /\ poolPointCount' = data.count
    /\ LET slots == [k \in 1..Len(workers) |-> [unit |-> workers[k], id |-> requestId[workers[k]] + 1]]
           payload == [u \in Range(workers) |-> data]
       IN  /\ Call(Range(workers), "init", payload, Len(ops) + 1)
           /\ ops' = Settle(calls', Append(ops, NewOp("init", TRUE, slots, NoQuery, data.count)), data.count)
    /\ UNCHANGED <<client, workerCount, workers, events, alive, terminated, unitVars, partVars, pure>>

\* ParallelPointWorkerClient.select
PoolSelect(q) ==
    /\ client = "pool"
    /\ LET dispatched == {k \in 1..Len(workers) : ~SlotSkipped(k - 1, poolPointCount, workerCount)}
           targets == {workers[k] : k \in dispatched}
           slots == [k \in 1..Len(workers) |->
                        [unit |-> workers[k],
                         id |-> IF k \in dispatched THEN requestId[workers[k]] + 1 ELSE 0]]
           payload == [u \in targets |->
                          [q |-> q,
                           startIndex |-> StartIndex(u - 1, poolPointCount, workerCount),
                           endIndex |-> EndIndex(u - 1, poolPointCount, workerCount)]]
       IN  /\ CanCall(targets)
           /\ Call(targets, "select", payload, Len(ops) + 1)
           /\ ops' = Settle(calls', Append(ops, NewOp("select", TRUE, slots, q, poolPointCount)), poolPointCount)
    /\ UNCHANGED <<client, workerCount, workers, poolPointCount, events, alive, terminated, unitVars, partVars, pure>>

\* ParallelPointWorkerClient.terminate
PoolTerminate ==
    /\ client = "pool"
    /\ workers # <<>>
    /\ workers' = <<>>
    /\ alive' = [u \in Units |-> IF u \in Range(workers) THEN FALSE ELSE alive[u]]
    /\ terminated' = [u \in Units |-> IF u \in Range(workers) THEN TRUE ELSE terminated[u]]
    /\ inbox' = [u \in Units |-> IF u \in Range(workers) THEN <<>> ELSE inbox[u]]
    /\ events' = [u \in Units |-> IF u \in Range(workers) THEN <<>> ELSE events[u]]
    /\ pending' = [u \in Units |-> IF u \in Range(workers) THEN {} ELSE pending[u]]
    /\ UNCHANGED <<client, workerCount, poolPointCount, requestId, calls, ops, failed, unitVars, partVars, pure, moved>>

\* PointWorkerClient.init, select and color: one call on the one worker.
SingleCall(kind, payloadValue, q) ==
    /\ client = "single"
    /\ CanCall({1})
    /\ LET payload == [u \in {1} |-> payloadValue]
       IN  /\ Call({1}, kind, payload, Len(ops) + 1)
           /\ ops' = Settle(calls', Append(ops, NewOp(kind, FALSE, <<[unit |-> 1, id |-> requestId[1] + 1]>>, q, 0)), poolPointCount)
    /\ UNCHANGED <<client, workerCount, workers, poolPointCount, events, alive, terminated, unitVars, partVars, pure>>

SingleInit(data) == SingleCall("init", data, NoQuery)

SingleSelect(q) == SingleCall("select", [q |-> q, startIndex |-> Undefined, endIndex |-> Undefined], q)

SingleColor(indices, rgb) == SingleCall("color", [indices |-> indices, color |-> rgb], NoQuery)

\* PointWorkerClient.terminate
SingleTerminate ==
    /\ client = "single"
    /\ ~terminated[1]
    /\ alive' = [alive EXCEPT ![1] = FALSE]
    /\ terminated' = [terminated EXCEPT ![1] = TRUE]
    /\ inbox' = [inbox EXCEPT ![1] = <<>>]
    /\ events' = [events EXCEPT ![1] = <<>>]
    /\ pending' = [pending EXCEPT ![1] = {}]
    /\ UNCHANGED <<client, workerCount, workers, poolPointCount, requestId, calls, ops, failed, unitVars, partVars, pure, moved>>

\* ------------------------------------------------------------------ worker
\* handleColor's loop without the write of the blue channel.
RECURSIVE ColorWriteSkipsBlue(_, _, _)
ColorWriteSkipsBlue(cols, indices, rgb) ==
    IF indices = <<>> THEN cols
    ELSE LET base == Head(indices) * 3
             written == [k \in 1..Len(cols) |->
                            IF k = base + 1 THEN rgb[1]
                            ELSE IF k = base + 2 THEN rgb[2]
                            ELSE cols[k]]
         IN  ColorWriteSkipsBlue(written, Tail(indices), rgb)

\* handleColor's loop: typed-array writes past the end are dropped.
RECURSIVE ColorWrite(_, _, _)
ColorWrite(cols, indices, rgb) ==
    IF indices = <<>> THEN cols
    ELSE LET base == Head(indices) * 3
             written == [k \in 1..Len(cols) |->
                            IF k = base + 1 THEN rgb[1]
                            ELSE IF k = base + 2 THEN rgb[2]
                            ELSE IF k = base + 3 THEN rgb[3]
                            ELSE cols[k]]
         IN  ColorWrite(written, Tail(indices), rgb)

Success(id, type, value, visited) ==
    [kind |-> "message", id |-> id, success |-> TRUE, type |-> type, value |-> value, visited |-> visited]
Failure(id, type) ==
    [kind |-> "message", id |-> id, success |-> FALSE, type |-> type, value |-> <<>>, visited |-> 0]
ErrorEvent == [kind |-> "error", id |-> 0, success |-> FALSE, type |-> "error", value |-> <<>>, visited |-> 0]

\* The sweep's range: startIndex ?? 0, endIndex ?? pointCount.
RangeStart(p) == IF p.startIndex = Undefined THEN 0 ELSE p.startIndex
RangeEnd(p, count) == IF p.endIndex = Undefined THEN count ELSE p.endIndex

\* Side s reads or writes its buffer name: recorded when it sent that
\* buffer away before.
Access(s, name) == staleRead \cup (IF name \in moved[s] THEN {<<s, name>>} ELSE {})

\* handleSelect reads positions in its loop: past the early return, when the
\* range holds a point.
SelectReads(u, m) ==
    /\ ~IsDegenerate(m.payload.q)
    /\ RangeEnd(m.payload, pointCount[u]) > RangeStart(m.payload)

\* ctx.onmessage, case "init"
WorkerInit(u, m) ==
    /\ positions' = [positions EXCEPT ![u] = Buf(m.payload.positions)]
    /\ colors' = [colors EXCEPT ![u] = Buf(m.payload.colors)]
    /\ pointCount' = [pointCount EXCEPT ![u] = m.payload.count]
    /\ events' = [events EXCEPT ![u] = Append(@, Success(m.id, "init", <<m.payload.count>>, 0))]
    /\ moved' = [moved EXCEPT ![u] = {}]
    /\ UNCHANGED <<failed, staleRead>>

\* The select response with positions.buffer in its transfer list: after a
\* sweep the unit's positions are detached, an array of length 0.
WorkerSelectTransfersPositions(u, m, allocFails) ==
    /\ UNCHANGED <<colors, pointCount>>
    /\ IF positions[u].null \/ (~IsDegenerate(m.payload.q) /\ allocFails)
       THEN /\ events' = [events EXCEPT ![u] = Append(@, Failure(m.id, "select"))]
            /\ failed' = [failed EXCEPT ![u] = TRUE]
            /\ UNCHANGED positions
       ELSE LET r == handleSelect(positions[u].data, pointCount[u], m.payload.q,
                                  RangeStart(m.payload), RangeEnd(m.payload, pointCount[u]))
            IN  /\ events' = [events EXCEPT ![u] = Append(@, Success(m.id, "select", r.indices, r.visited))]
                /\ positions' = [positions EXCEPT ![u] = Buf(<<>>)]
                /\ UNCHANGED failed
    /\ moved' = [moved EXCEPT ![u] = @ \cup {<<"positions", 0>>}]
    /\ staleRead' = (IF ~positions[u].null /\ ~allocFails /\ SelectReads(u, m)
                     THEN Access(u, <<"positions", 0>>) ELSE staleRead)

\* ctx.onmessage, case "select": handleSelect throws when positions is null;
\* past the early return it allocates (the path arrays, the selected buffer,
\* the copy it returns), and an allocation that fails throws as well.
WorkerSelect(u, m, allocFails) ==
    /\ UNCHANGED unitVars
    /\ IF positions[u].null
       THEN /\ events' = [events EXCEPT ![u] = Append(@, Failure(m.id, "select"))]
            /\ failed' = [failed EXCEPT ![u] = TRUE]
       ELSE IF ~IsDegenerate(m.payload.q) /\ allocFails
       THEN /\ events' = [events EXCEPT ![u] = Append(@, Failure(m.id, "select"))]
            /\ failed' = [failed EXCEPT ![u] = TRUE]
       ELSE LET r == handleSelect(positions[u].data, pointCount[u], m.payload.q,
                                  RangeStart(m.payload), RangeEnd(m.payload, pointCount[u]))
            IN  /\ events' = [events EXCEPT ![u] = Append(@, Success(m.id, "select", r.indices, r.visited))]
                /\ UNCHANGED failed
    /\ UNCHANGED moved
    /\ staleRead' = (IF ~positions[u].null /\ ~allocFails /\ SelectReads(u, m)
                     THEN Access(u, <<"positions", 0>>) ELSE staleRead)

\* The color response with the buffer of the unit's own colors in its
\* transfer list (no slice): the unit's colors are detached afterwards.
WorkerColorTransfersColors(u, m, allocFails) ==
    /\ UNCHANGED <<positions, pointCount>>
    /\ IF colors[u].null
       THEN /\ events' = [events EXCEPT ![u] = Append(@, Failure(m.id, "color"))]
            /\ failed' = [failed EXCEPT ![u] = TRUE]
            /\ UNCHANGED <<colors, moved, staleRead>>
       ELSE LET written == ColorWrite(colors[u].data, m.payload.indices, m.payload.color)
            IN  /\ staleRead' = Access(u, <<"colors", 0>>)
                /\ IF allocFails
                   THEN /\ events' = [events EXCEPT ![u] = Append(@, Failure(m.id, "color"))]
                        /\ failed' = [failed EXCEPT ![u] = TRUE]
                        /\ colors' = [colors EXCEPT ![u] = Buf(written)]
                        /\ UNCHANGED moved
                   ELSE /\ events' = [events EXCEPT ![u] = Append(@, Success(m.id, "color", written, 0))]
                        /\ colors' = [colors EXCEPT ![u] = Buf(<<>>)]
                        /\ moved' = [moved EXCEPT ![u] = @ \cup {<<"colors", 0>>}]
                        /\ UNCHANGED failed

\* ctx.onmessage, case "color": handleColor throws when colors is null; it
\* writes the triples in place and then allocates the copy it returns, whose
\* buffer is the one in the transfer list.
WorkerColor(u, m, allocFails) ==
    /\ UNCHANGED <<positions, pointCount, moved>>
    /\ IF colors[u].null
       THEN /\ events' = [events EXCEPT ![u] = Append(@, Failure(m.id, "color"))]
            /\ failed' = [failed EXCEPT ![u] = TRUE]
            /\ UNCHANGED <<colors, staleRead>>
       ELSE LET written == ColorWrite(colors[u].data, m.payload.indices, m.payload.color)
            IN  /\ colors' = [colors EXCEPT ![u] = Buf(written)]
                /\ staleRead' = Access(u, <<"colors", 0>>)
                /\ IF allocFails
                   THEN /\ events' = [events EXCEPT ![u] = Append(@, Failure(m.id, "color"))]
                        /\ failed' = [failed EXCEPT ![u] = TRUE]
                   ELSE /\ events' = [events EXCEPT ![u] = Append(@, Success(m.id, "color", written, 0))]
                        /\ UNCHANGED failed

\* handleParse of point-worker.ts is parsePCD of pcd-parser.ts.
handleParse(arrayBuffer) == parsePCD(arrayBuffer)

\* ctx.onmessage, case "parse": the result is kept in no variable of the
\* unit; its buffers are the ones in the transfer list.
WorkerParse(u, m) ==
    /\ UNCHANGED <<unitVars, moved, staleRead>>
    /\ LET result == handleParse(m.payload.arrayBuffer)
       IN  IF result.thrown
           THEN /\ events' = [events EXCEPT ![u] = Append(@, Failure(m.id, "parse"))]
                /\ failed' = [failed EXCEPT ![u] = TRUE]
           ELSE /\ events' = [events EXCEPT ![u] = Append(@, Success(m.id, "parse", <<result.data>>, 0))]
                /\ UNCHANGED failed

\* A worker that takes the newest message of its queue first.
WorkerStepNewestFirst(u) ==
    /\ alive[u]
    /\ inbox[u] # <<>>
    /\ inbox' = [inbox EXCEPT ![u] = SubSeq(@, 1, Len(@) - 1)]
    /\ LET m == inbox[u][Len(inbox[u])]
       IN  \/ m.type = "init" /\ WorkerInit(u, m)
           \/ m.type = "select" /\ \E allocFails \in BOOLEAN : WorkerSelect(u, m, allocFails)
           \/ m.type = "color" /\ \E allocFails \in BOOLEAN : WorkerColor(u, m, allocFails)
           \/ m.type = "parse" /\ WorkerParse(u, m)
    /\ UNCHANGED <<clientVars, alive, terminated, partVars, pure, page>>

\* ctx.onmessage: the worker handles the next message of its queue.
WorkerStep(u) ==
    /\ alive[u]
    /\ inbox[u] # <<>>
    /\ inbox' = [inbox EXCEPT ![u] = Tail(@)]
    /\ LET m == Head(inbox[u])
       IN  \/ m.type = "init" /\ WorkerInit(u, m)
           \/ m.type = "select" /\ \E allocFails \in BOOLEAN : WorkerSelect(u, m, allocFails)
           \/ m.type = "color" /\ \E allocFails \in BOOLEAN : WorkerColor(u, m, allocFails)
           \/ m.type = "parse" /\ WorkerParse(u, m)
    /\ UNCHANGED <<clientVars, alive, terminated, partVars, pure, page>>

\* The worker dies of an uncaught error: it handles no further message and
\* the client's error event is queued behind the responses already posted.
Crash(u) ==
    /\ alive[u]
    /\ Cardinality({v \in Units : ~alive[v] /\ ~terminated[v] /\ v <= workerCount}) < MaxCrashes
    /\ alive' = [alive EXCEPT ![u] = FALSE]
    /\ inbox' = [inbox EXCEPT ![u] = <<>>]
    /\ events' = [events EXCEPT ![u] = Append(@, ErrorEvent)]
    /\ failed' = [failed EXCEPT ![u] = TRUE]
    /\ UNCHANGED <<clientVars, terminated, unitVars, partVars, pure, page, moved, staleRead>>

\* ------------------------------------------------------------------ client events
\* worker.onmessage without the test of success: a failure response resolves.
OnMessageIgnoresFailure(u) ==
    /\ events[u] # <<>>
    /\ Head(events[u]).kind = "message"
    /\ events' = [events EXCEPT ![u] = Tail(@)]
    /\ LET e == Head(events[u])
       IN  IF e.id \notin pending[u]
           THEN UNCHANGED <<pending, calls, ops>>
           ELSE /\ pending' = [pending EXCEPT ![u] = @ \ {e.id}]
                /\ calls' = [calls EXCEPT ![u][e.id] = [@ EXCEPT !.state = "resolved", !.value = e.value]]
                /\ ops' = Settle(calls', ops, poolPointCount)
    /\ UNCHANGED <<client, workerCount, workers, poolPointCount, requestId, inbox, alive,
                   terminated, failed, unitVars, partVars, pure, moved>>

\* worker.onmessage without this.pending.delete(id): the entry stays.
OnMessageKeepsEntry(u) ==
    /\ events[u] # <<>>
    /\ Head(events[u]).kind = "message"
    /\ events' = [events EXCEPT ![u] = Tail(@)]
    /\ LET e == Head(events[u])
       IN  IF e.id \notin pending[u]
           THEN UNCHANGED <<pending, calls, ops>>
           ELSE /\ UNCHANGED pending
                /\ calls' = [calls EXCEPT ![u][e.id] =
                                [@ EXCEPT !.state = IF e.success THEN "resolved" ELSE "rejected",
                                          !.value = e.value]]
                /\ ops' = Settle(calls', ops, poolPointCount)
    /\ UNCHANGED <<client, workerCount, workers, poolPointCount, requestId, inbox, alive,
                   terminated, failed, unitVars, partVars, pure, moved>>

\* worker.onmessage
OnMessage(u) ==
    /\ events[u] # <<>>
    /\ Head(events[u]).kind = "message"
    /\ events' = [events EXCEPT ![u] = Tail(@)]
    /\ LET e == Head(events[u])
       IN  IF e.id \notin pending[u]
           THEN UNCHANGED <<pending, calls, ops>>
           ELSE /\ pending' = [pending EXCEPT ![u] = @ \ {e.id}]
                /\ calls' = [calls EXCEPT ![u][e.id] =
                                [@ EXCEPT !.state = IF e.success THEN "resolved" ELSE "rejected",
                                          !.value = e.value]]
                /\ ops' = Settle(calls', ops, poolPointCount)
    /\ UNCHANGED <<client, workerCount, workers, poolPointCount, requestId, inbox, alive,
                   terminated, failed, unitVars, partVars, pure, moved>>

\* worker.onerror without this.pending.clear(): the entries stay.
OnErrorKeepsMap(u) ==
    /\ events[u] # <<>>
    /\ Head(events[u]).kind = "error"
    /\ events' = [events EXCEPT ![u] = Tail(@)]
    /\ calls' = [calls EXCEPT ![u] =
                    [id \in 1..Len(@) |-> IF id \in pending[u] THEN [@[id] EXCEPT !.state = "rejected"] ELSE @[id]]]
    /\ UNCHANGED pending
    /\ ops' = Settle(calls', ops, poolPointCount)
    /\ UNCHANGED <<client, workerCount, workers, poolPointCount, requestId, inbox, alive,
                   terminated, failed, unitVars, partVars, pure, moved>>

\* worker.onerror
OnError(u) ==
    /\ events[u] # <<>>
    /\ Head(events[u]).kind = "error"
    /\ events' = [events EXCEPT ![u] = Tail(@)]
    /\ calls' = [calls EXCEPT ![u] =
                    [id \in 1..Len(@) |-> IF id \in pending[u] THEN [@[id] EXCEPT !.state = "rejected"] ELSE @[id]]]
    /\ pending' = [pending EXCEPT ![u] = {}]
    /\ ops' = Settle(calls', ops, poolPointCount)
    /\ UNCHANGED <<client, workerCount, workers, poolPointCount, requestId, inbox, alive,
                   terminated, failed, unitVars, partVars, pure, moved>>

\* ------------------------------------------------------------------ specification
ColorIndices == {<<0>>, <<0, 2>>}
Red == <<1, 0, 0>>

PartIdle == pCount = 0 /\ pWorkers = 1 /\ pIndex = 1 /\ pRanges = <<>>

\* Home before a file is loaded: the initial values of its useState.
NoPage ==
    [loaded |-> FALSE, pointCloud |-> [positions |-> <<>>, colors |-> <<>>, count |-> 0],
     selectedIndices |-> <<>>, selectionMode |-> "orbit", awaits |-> <<>>, lastUpload |-> "none",
     todo |-> <<>>, isLoading |-> FALSE, reading |-> <<>>, drawn |-> <<>>]

\* The client and its units as their constructors leave them, under Home
\* as it is mounted.
Constructed ==
    /\ client \in {"single", "pool"}
    /\ workerCount \in 1..MaxWorkers
    /\ client = "single" => workerCount = 1
    /\ workers = [k \in 1..workerCount |-> k]
    /\ poolPointCount = 0
    /\ requestId = [u \in Units |-> 0]
    /\ pending = [u \in Units |-> {}]
    /\ calls = [u \in Units |-> <<>>]
    /\ ops = <<>>
    /\ inbox = [u \in Units |-> <<>>]
    /\ events = [u \in Units |-> <<>>]
    /\ alive = [u \in Units |-> u <= workerCount]
    /\ terminated = [u \in Units |-> FALSE]
    /\ positions = [u \in Units |-> NullBuf]
    /\ colors = [u \in Units |-> NullBuf]
    /\ pointCount = [u \in Units |-> 0]
    /\ failed = [u \in Units |-> FALSE]
    /\ page = NoPage
    /\ moved = [s \in Sides |-> {}]
    /\ staleRead = {}

Init ==
    /\ Constructed
    /\ PartIdle
    /\ pure = PureIdle

\* The environment starts at most MaxOps operations.
Next ==
    \/ Len(ops) < MaxOps /\ \E data \in Clouds : PoolInit(data) /\ UNCHANGED pageVars
    \/ Len(ops) < MaxOps /\ \E q \in Queries : PoolSelect(q) /\ UNCHANGED pageVars
    \/ PoolTerminate /\ UNCHANGED pageVars
    \/ Len(ops) < MaxOps /\ \E data \in Clouds : SingleInit(data) /\ UNCHANGED pageVars
    \/ Len(ops) < MaxOps /\ \E q \in Queries : SingleSelect(q) /\ UNCHANGED pageVars
    \/ Len(ops) < MaxOps /\ \E indices \in ColorIndices : SingleColor(indices, Red) /\ UNCHANGED pageVars
    \/ SingleTerminate /\ UNCHANGED pageVars
    \/ \E u \in Units : WorkerStep(u)
    \/ \E u \in Units : Crash(u)
    \/ \E u \in Units : OnMessage(u) /\ UNCHANGED pageVars
    \/ \E u \in Units : OnError(u) /\ UNCHANGED pageVars

Spec == Init /\ [][Next]_vars

\* ------------------------------------------------------------------ overlapping operations
\* The pool with every worker running and no worker lost: init and select
\* calls issued without waiting for the ones before, one more of them than
\* the base specification starts.
MaxOverlapOps == MaxOps + 1

OverlapInit == Init /\ client = "pool" /\ workerCount = MaxWorkers

OverlapNext ==
    \/ Len(ops) < MaxOverlapOps /\ \E data \in {MkCloud(0, 0), MkCloud(MaxPoints, 0)} : PoolInit(data) /\ UNCHANGED pageVars
    \/ Len(ops) < MaxOverlapOps /\ \E q \in {QSquare, QShortPath} : PoolSelect(q) /\ UNCHANGED pageVars
    \/ \E u \in Units : WorkerStep(u)
    \/ \E u \in Units : OnMessage(u) /\ UNCHANGED pageVars

OverlapSpec == OverlapInit /\ [][OverlapNext]_vars

\* ------------------------------------------------------------------ responses and error events
\* The client's handlers under every order of responses and error events:
\* a worker whose error event fires goes on answering the messages of its
\* queue, so that a response may come after the error event that rejected
\* its call.
\* An uncaught error in the worker: the error event of the Worker object is
\* queued, the worker lives on.
ErrorFires(u) ==
    /\ alive[u]
    /\ \A i \in 1..Len(events[u]) : events[u][i].kind # "error"
    /\ events' = [events EXCEPT ![u] = Append(@, ErrorEvent)]
    /\ failed' = [failed EXCEPT ![u] = TRUE]
    /\ UNCHANGED <<clientVars, inbox, alive, terminated, unitVars, partVars, pure, page, moved, staleRead>>

\* The environment starts at most MaxEventOps operations.
MaxEventOps == 2

EventNext ==
    \/ Len(ops) < MaxEventOps /\ PoolInit(MkCloud(MaxPoints, 0)) /\ UNCHANGED pageVars
    \/ Len(ops) < MaxEventOps /\ PoolSelect(QSquare) /\ UNCHANGED pageVars
    \/ Len(ops) < MaxEventOps /\ SingleInit(MkCloud(MaxPoints, 0)) /\ UNCHANGED pageVars
    \/ Len(ops) < MaxEventOps /\ SingleSelect(QSquare) /\ UNCHANGED pageVars
    \/ \E u \in Units : WorkerStep(u)
    \/ \E u \in Units : ErrorFires(u)
    \/ \E u \in Units : OnMessage(u) /\ UNCHANGED pageVars
    \/ \E u \in Units : OnError(u) /\ UNCHANGED pageVars

EventSpec == Init /\ [][EventNext]_vars

\* ------------------------------------------------------------------ the dispatch loop alone
\* The workers.map of ParallelPointWorkerClient.select, one worker per step,
\* for every point count and worker count of the bounds.
PartInit ==
    /\ client = "pool"
    /\ workerCount = 1
    /\ workers = <<1>>
    /\ poolPointCount = 0
    /\ requestId = [u \in Units |-> 0]
    /\ pending = [u \in Units |-> {}]
    /\ calls = [u \in Units |-> <<>>]
    /\ ops = <<>>
    /\ inbox = [u \in Units |-> <<>>]
    /\ events = [u \in Units |-> <<>>]
    /\ alive = [u \in Units |-> u <= 1]
    /\ terminated = [u \in Units |-> FALSE]
    /\ positions = [u \in Units |-> NullBuf]
    /\ colors = [u \in Units |-> NullBuf]
    /\ pointCount = [u \in Units |-> 0]
    /\ failed = [u \in Units |-> FALSE]
    /\ pCount \in 0..MaxPartCount
    /\ pWorkers \in 1..MaxPartWorkers
    /\ pIndex = 0
    /\ pRanges = <<>>
    /\ pure = PureIdle
    /\ page = NoPage
    /\ moved = [s \in Sides |-> {}]
    /\ staleRead = {}

\* The range dispatched to the worker of index k: none when it is skipped.
DispatchedRange(k, count, wc) ==
    IF SlotSkipped(k, count, wc) THEN {}
    ELSE {i \in 0..count : StartIndex(k, count, wc) <= i /\ i < EndIndex(k, count, wc)}

PartStep ==
    /\ pIndex < pWorkers
    /\ pRanges' = Append(pRanges, DispatchedRange(pIndex, pCount, pWorkers))
    /\ pIndex' = pIndex + 1
    /\ UNCHANGED <<pCount, pWorkers, pure, page, moved, staleRead, clientVars, inbox, events, alive, terminated, unitVars, failed>>

PartNext == PartStep

PartSpec == PartInit /\ [][PartNext]_vars

\* ------------------------------------------------------------------ the application
\* Home over its client: Home of page.tsx over PointWorkerClient (client =
\* "single"), Home as pcd-parser.ts lists it over ParallelPointWorkerClient
\* (client = "pool"), and PointCloudViewer over either.
MaxAppOps == MaxCalls

\* A file of four-byte fields, COUNT 1 each.
PcdFile(fields, data, points, rows, cells) ==
    [lines |-> <<Line("VERSION", <<".7">>),
                 Line("FIELDS", fields),
                 Line("SIZE", [i \in 1..Len(fields) |-> 4]),
                 Line("COUNT", [i \in 1..Len(fields) |-> 1]),
                 Line("POINTS", <<points>>),
                 Line("DATA", <<data>>)>>,
     rows |-> rows, cells |-> cells]

\* Three ASCII lines, the second with a y that is no number: two points.
AsciiFile ==
    PcdFile(<<"x", "y", "z">>, "ascii", 3,
            << <<Num(0), Num(0), Num(0)>>, <<Num(1), NaNField, Num(0)>>, <<Num(0), Num(0), Num(-1)>> >>, <<>>)

\* One binary row with a red rgb: one point.
BinaryFile ==
    PcdFile(<<"x", "y", "z", "rgb">>, "binary", 1, <<>>, <<Num(0), Num(0), Num(0), Rgb(255, 0, 0)>>)

\* POINTS 2 over a payload of one row: the second row is past the end.
ShortFile ==
    PcdFile(<<"x", "y", "z">>, "binary", 2, <<>>, <<Num(0), Num(0), Num(0)>>)

AppFiles == {AsciiFile, BinaryFile, ShortFile}
AppQueries == {QSquare, QShortPath}

\* PointCloudMesh's effect after a change of pointCloud or selectedIndices
\* reads pointCloud.positions and pointCloud.colors.
RenderReads ==
    staleRead' = staleRead \cup {<<0, name>> : name \in {<<"positions", 0>>, <<"colors", 0>>} \cap moved'[0]}

Awaiting(handler) == [handler |-> handler, cloud |-> page.pointCloud]

\* handleFileUpload of either Home, up to await file.arrayBuffer()
HandleFileUpload(file) ==
    /\ page' = [page EXCEPT !.isLoading = TRUE, !.reading = <<file>>]
    /\ UNCHANGED <<clientVars, inbox, events, alive, terminated, unitVars, failed,
                   partVars, pure, moved, staleRead>>

\* handleFileUpload of page.tsx after the file is read: parsePCD on the main
\* thread, then init without awaiting it.
HandleFileUploadRead ==
    /\ client = "single"
    /\ page.reading # <<>>
    /\ LET r == parsePCD(page.reading[1])
       IN  IF r.thrown
           THEN /\ page' = [page EXCEPT !.lastUpload = "failed", !.isLoading = FALSE, !.reading = <<>>]
                /\ UNCHANGED <<clientVars, inbox, events, alive, terminated, unitVars, failed,
                               partVars, pure, moved, staleRead>>
           ELSE /\ SingleInit(r.data)
                /\ page' = [page EXCEPT !.loaded = TRUE, !.pointCloud = r.data,
                                        !.selectedIndices = <<>>, !.lastUpload = "ok",
                                        !.awaits = Append(@, Awaiting("init")),
                                        !.isLoading = FALSE, !.reading = <<>>]
                /\ RenderReads

\* ParallelPointWorkerClient.parse: the file goes to the first worker.
PoolParse(file) ==
    /\ client = "pool"
    /\ workers # <<>>
    /\ \A u \in Range(workers) : requestId[u] + 2 <= MaxCalls
    /\ LET slots == <<[unit |-> workers[1], id |-> requestId[workers[1]] + 1]>>
           payload == [u \in {workers[1]} |-> [arrayBuffer |-> file]]
       IN  /\ Call({workers[1]}, "parse", payload, Len(ops) + 1)
           /\ ops' = Settle(calls', Append(ops, NewOp("parse", TRUE, slots, NoQuery, 0)), poolPointCount)
    /\ UNCHANGED <<client, workerCount, workers, poolPointCount, events, alive, terminated,
                   unitVars, partVars, pure>>

\* handleFileUpload of the Home over the pool after the file is read: await
\* parse.
HandleFileUploadParse ==
    /\ page.reading # <<>>
    /\ PoolParse(page.reading[1])
    /\ page' = [page EXCEPT !.awaits = Append(@, Awaiting("parse")), !.reading = <<>>]
    /\ UNCHANGED staleRead

\* After the parse response: every worker is initialized with the received
\* data and Home sets its point cloud.
ParseThenInit ==
    /\ page.todo # <<>>
    /\ PoolInit(page.todo[1])
    /\ page' = [page EXCEPT !.loaded = TRUE, !.pointCloud = page.todo[1],
                            !.selectedIndices = <<>>, !.lastUpload = "ok", !.todo = <<>>,
                            !.awaits = Append(@, Awaiting("init")), !.isLoading = FALSE]
    /\ RenderReads

\* Toolbar's onModeChange
HandleModeChange(mode) ==
    /\ page.loaded
    /\ page.selectionMode # mode
    /\ page' = [page EXCEPT !.selectionMode = mode]
    /\ UNCHANGED <<clientVars, inbox, events, alive, terminated, unitVars, failed,
                   partVars, pure, moved, staleRead>>

\* handleLassoComplete without the test of the length of the path.
LassoCompleteAnyPath(pg, q) ==
    /\ \/ client = "single" /\ SingleSelect(q)
       \/ client = "pool" /\ PoolSelect(q)
    /\ page' = [pg EXCEPT !.awaits = Append(@, Awaiting("lasso"))]
    /\ UNCHANGED staleRead

\* PointCloudViewer.handleLassoComplete, up to its await; pg is Home as the
\* caller left it.
LassoComplete(pg, q) ==
    IF Len(q.path) < 3
    THEN /\ page' = pg
         /\ UNCHANGED <<clientVars, inbox, events, alive, terminated, unitVars, failed,
                        partVars, pure, moved, staleRead>>
    ELSE /\ \/ client = "single" /\ SingleSelect(q)
            \/ client = "pool" /\ PoolSelect(q)
         /\ page' = [pg EXCEPT !.awaits = Append(@, Awaiting("lasso"))]
         /\ UNCHANGED staleRead

\* A lasso completed with the path of q.
HandleLassoComplete(q) ==
    /\ page.loaded
    /\ page.selectionMode = "lasso"
    /\ LassoComplete(page, q)

\* LassoOverlay.handleMouseDown: the path starts with the point under the
\* mouse.  The overlay is there in lasso mode.
HandleMouseDown(point) ==
    /\ page.loaded
    /\ page.selectionMode = "lasso"
    /\ page.drawn = <<>>
    /\ page' = [page EXCEPT !.drawn = <<point>>]
    /\ UNCHANGED <<clientVars, inbox, events, alive, terminated, unitVars, failed,
                   partVars, pure, moved, staleRead>>

\* LassoOverlay.handleMouseMove while drawing
HandleMouseMove(point) ==
    /\ page.drawn # <<>>
    /\ page' = [page EXCEPT !.drawn = Append(@, point)]
    /\ UNCHANGED <<clientVars, inbox, events, alive, terminated, unitVars, failed,
                   partVars, pure, moved, staleRead>>

\* LassoOverlay.handleMouseUp: onComplete(pathRef.current), then the path
\* is emptied; the viewer takes matrix and viewport from the camera.
HandleMouseUp ==
    /\ page.drawn # <<>>
    /\ LassoComplete([page EXCEPT !.drawn = <<>>], MkQuery(page.drawn, IdentityMatrix, 10, 10))

\* handleColorSelection of page.tsx, up to its await
HandleColorSelection ==
    /\ page.loaded
    /\ page.selectedIndices # <<>>
    /\ SingleColor(page.selectedIndices, Red)
    /\ page' = [page EXCEPT !.awaits = Append(@, Awaiting("color"))]
    /\ UNCHANGED staleRead

\* handleColorSelection of the Home over the pool: the colors are written
\* on the main thread, in the array of pointCloud.
HandleColorSelectionInPlace ==
    /\ client = "pool"
    /\ page.loaded
    /\ page.selectedIndices # <<>>
    /\ page' = [page EXCEPT !.pointCloud.colors = ColorWrite(@, page.selectedIndices, Red),
                            !.selectedIndices = <<>>]
    /\ staleRead' = Access(0, <<"colors", 0>>)
    /\ UNCHANGED <<clientVars, inbox, events, alive, terminated, unitVars, failed,
                   partVars, pure, moved>>

\* The catch of handleFileUpload clearing the selection.
ContinueClearsOnFailure(pg, aw, op) ==
    IF op.state # "resolved"
    THEN IF aw.handler = "parse"
         THEN [pg EXCEPT !.lastUpload = "failed", !.isLoading = FALSE, !.selectedIndices = <<>>]
         ELSE pg
    ELSE CASE aw.handler = "lasso" ->
                IF Len(op.result) > SetMaxSize THEN pg
                ELSE [pg EXCEPT !.selectedIndices = op.result, !.selectionMode = "orbit"]
           [] aw.handler = "color" ->
                [pg EXCEPT !.pointCloud = [aw.cloud EXCEPT !.colors = op.result],
                           !.selectedIndices = <<>>]
           [] aw.handler = "parse" -> [pg EXCEPT !.todo = op.result]
           [] OTHER -> pg

\* The catch of handleLassoComplete reporting an empty selection.
ContinueSelectsNothingOnReject(pg, aw, op) ==
    IF op.state # "resolved"
    THEN IF aw.handler = "parse" THEN [pg EXCEPT !.lastUpload = "failed", !.isLoading = FALSE]
         ELSE IF aw.handler = "lasso" THEN [pg EXCEPT !.selectedIndices = <<>>, !.selectionMode = "orbit"]
         ELSE pg
    ELSE CASE aw.handler = "lasso" ->
                IF Len(op.result) > SetMaxSize THEN pg
                ELSE [pg EXCEPT !.selectedIndices = op.result, !.selectionMode = "orbit"]
           [] aw.handler = "color" ->
                [pg EXCEPT !.pointCloud = [aw.cloud EXCEPT !.colors = op.result],
                           !.selectedIndices = <<>>]
           [] aw.handler = "parse" -> [pg EXCEPT !.todo = op.result]
           [] OTHER -> pg

\* What the handler awaiting operation op does when it settles.  In
\* handleSelectionComplete new Set(indices) throws a RangeError past the
\* capacity of a Set, inside the try of handleLassoComplete, which logs it:
\* neither setSelectedIndices nor setSelectionMode is reached.
Continue(pg, aw, op) ==
    IF op.state # "resolved"
    THEN IF aw.handler = "parse" THEN [pg EXCEPT !.lastUpload = "failed", !.isLoading = FALSE] ELSE pg
    ELSE CASE aw.handler = "lasso" ->
                IF Len(op.result) > SetMaxSize THEN pg
                ELSE [pg EXCEPT !.selectedIndices = op.result, !.selectionMode = "orbit"]
           [] aw.handler = "color" ->
                [pg EXCEPT !.pointCloud = [aw.cloud EXCEPT !.colors = op.result],
                           !.selectedIndices = <<>>]
           [] aw.handler = "parse" -> [pg EXCEPT !.todo = op.result]
           [] OTHER -> pg

\* worker.onmessage and the continuation of the handler it wakes.
AppOnMessage(u) ==
    /\ OnMessage(u)
    /\ LET done == {i \in 1..Len(ops) : ops[i].state = "waiting" /\ ops'[i].state # "waiting"}
       IN  IF done = {} THEN UNCHANGED page
           ELSE page' = Continue(page, page.awaits[CHOOSE i \in done : TRUE],
                                 ops'[CHOOSE i \in done : TRUE])
    /\ RenderReads

PageIdle == page.todo = <<>> /\ page.reading = <<>>

\* The continuation of a handler runs before the next event is handled.  The
\* user enters lasso mode and leaves it by completing a lasso; no allocation
\* of a select or color call fails.
AppNext ==
    \/ PageIdle /\ Len(ops) + (IF client = "pool" THEN 1 ELSE 0) < MaxAppOps
                /\ \E file \in AppFiles : HandleFileUpload(file)
    \/ HandleFileUploadRead
    \/ HandleFileUploadParse
    \/ ParseThenInit
    \/ PageIdle /\ HandleModeChange("lasso")
    \/ PageIdle /\ Len(ops) < MaxAppOps /\ \E q \in AppQueries : HandleLassoComplete(q)
    \/ PageIdle /\ Len(ops) < MaxAppOps /\ HandleColorSelection
    \/ PageIdle /\ HandleColorSelectionInPlace
    \/ \E u \in Units : WorkerStep(u) /\ (Head(inbox[u]).type \in {"select", "color"} => failed' = failed)
    \/ PageIdle /\ \E u \in Units : AppOnMessage(u)

AppSpec == Init /\ [][AppNext]_vars

\* ------------------------------------------------------------------ a large selection
\* Home over a cloud of more points than a Set holds, all of them inside
\* the lasso.
LargeFile ==
    PcdFile(<<"x", "y", "z">>, "ascii", SetMaxSize + 1,
            [i \in 1..(SetMaxSize + 1) |-> <<Num(0), Num(0), Num(0)>>], <<>>)

LargeNext ==
    \/ PageIdle /\ ops = <<>> /\ HandleFileUpload(LargeFile)
    \/ HandleFileUploadRead
    \/ HandleFileUploadParse
    \/ ParseThenInit
    \/ PageIdle /\ HandleModeChange("lasso")
    \/ PageIdle /\ Len(ops) < MaxOverlapOps /\ \E q \in AppQueries : HandleLassoComplete(q)
    \/ \E u \in Units : WorkerStep(u) /\ (Head(inbox[u]).type = "select" => failed' = failed)
    \/ PageIdle /\ \E u \in Units : AppOnMessage(u)

LargeSpec == Init /\ [][LargeNext]_vars

\* ------------------------------------------------------------------ the lasso drawn
\* Home over one file, the lasso drawn point by point along the square and
\* let go after any number of points; the allocation of a select may fail.
LassoNext ==
    \/ PageIdle /\ ops = <<>> /\ HandleFileUpload(AsciiFile)
    \/ HandleFileUploadRead
    \/ HandleFileUploadParse
    \/ ParseThenInit
    \/ PageIdle /\ HandleModeChange("lasso")
    \/ PageIdle /\ HandleMouseDown(SquarePath[1])
    \/ PageIdle /\ Len(page.drawn) < Len(SquarePath) /\ HandleMouseMove(SquarePath[Len(page.drawn) + 1])
    \/ PageIdle /\ Len(ops) < MaxOverlapOps /\ HandleMouseUp
    \/ \E u \in Units : WorkerStep(u)
    \/ PageIdle /\ \E u \in Units : AppOnMessage(u)

LassoSpec == Init /\ [][LassoNext]_vars

\* ------------------------------------------------------------------ the kernel on its own
\* isPointInPolygon and handleSelect are pure: here each is applied once to
\* an input drawn from a grid.
MaxScreen == 11
MaxCoord == 2

TrianglePath == <<<<0, 0>>, <<10, 0>>, <<5, 10>>>>
ConcavePath == <<<<0, 0>>, <<5, 5>>, <<10, 0>>, <<10, 10>>, <<0, 10>>>>
BowtiePath == <<<<0, 0>>, <<10, 10>>, <<10, 0>>, <<0, 10>>>>
\* 11 is no float of MantissaBits bits: it is stored as 12.
OddSquarePath == <<<<0, 0>>, <<11, 0>>, <<11, 11>>, <<0, 11>>>>
KernelPaths == {SquarePath, TrianglePath, ConcavePath, BowtiePath, OddSquarePath}

\* Column-major, as THREE.Matrix4.elements: x + 1 and y - 1.
TranslateMatrix == <<1, 0, 0, 0,  0, 1, 0, 0,  0, 0, 1, 0,  1, -1, 0, 1>>
\* clipZ = -z - 2 and clipW = -z: a camera looking down the negative z axis.
PerspectiveMatrix == <<1, 0, 0, 0,  0, 1, 0, 0,  0, 0, -1, -1,  0, 0, -2, 0>>
\* clipW = -1 everywhere.
NegativeWMatrix == <<1, 0, 0, 0,  0, 1, 0, 0,  0, 0, 1, 0,  0, 0, 0, -1>>
KernelMatrices == {IdentityMatrix, TranslateMatrix, PerspectiveMatrix, NegativeWMatrix}

ScreenGrid == (-1 .. MaxScreen) \cup {15}
CoordGrid == (-MaxCoord) .. MaxCoord
KernelViewports == {<<10, 10>>, <<20, 10>>, <<23, 23>>}

ContainInputs ==
    [kind : {"contain"}, stage : {"in"}, path : KernelPaths,
     px : ScreenGrid, py : ScreenGrid, out : {FALSE}]

SelectInputs ==
    {[kind |-> "select", stage |-> "in", q |-> MkQuery(path, m, v[1], v[2]),
      point |-> <<x, y, z>>, out |-> <<>>] :
        path \in KernelPaths, m \in KernelMatrices, v \in KernelViewports,
        x \in CoordGrid, y \in CoordGrid, z \in CoordGrid}

KernelInit ==
    /\ Constructed
    /\ client = "single"
    /\ PartIdle
    /\ pure \in ContainInputs \cup SelectInputs

KernelFrame ==
    UNCHANGED <<clientVars, inbox, events, alive, terminated, unitVars, failed, partVars, page, moved, staleRead>>

\* isPointInPolygon at a point of the screen grid.
KernelContain ==
    /\ pure.kind = "contain" /\ pure.stage = "in"
    /\ pure' = [pure EXCEPT !.stage = "out",
                            !.out = isPointInPolygon(pure.px, 1, pure.py, 1, pure.path)]
    /\ KernelFrame

\* handleSelect on a cloud of the one point pure.point.
KernelSelect ==
    /\ pure.kind = "select" /\ pure.stage = "in"
    /\ pure' = [pure EXCEPT !.stage = "out",
                            !.out = handleSelect(pure.point, 1, pure.q, 0, 1).indices]
    /\ KernelFrame

KernelNext ==
    \/ KernelContain
    \/ KernelSelect

KernelSpec == KernelInit /\ [][KernelNext]_vars

\* ------------------------------------------------------------------ the pool at its full size
\* ParallelPointWorkerClient as Home constructs it, without an argument, on
\* a machine of up to MaxCores cores, then init and select calls on it.
MaxCores == 14
MaxFullOps == 2
DefaultCores == 4
MinPoolSize == 2
MaxPoolSize == 12

Max2(a, b) == IF a > b THEN a ELSE b

\* Without the cap of 12.
DefaultWorkerCountUncapped(hc) ==
    Max2(IF hc = 0 THEN DefaultCores ELSE hc, MinPoolSize)

\* Math.min(Math.max(navigator.hardwareConcurrency || 4, 2), 12); hc = 0
\* where the browser gives no hardwareConcurrency.
DefaultWorkerCount(hc) ==
    Min2(Max2(IF hc = 0 THEN DefaultCores ELSE hc, MinPoolSize), MaxPoolSize)

FullUnits == 1..MaxPoolSize

FullInit ==
    /\ client = "pool"
    /\ pure \in {[kind |-> "pool", hc |-> hc] : hc \in 0..MaxCores}
    /\ workerCount = DefaultWorkerCount(pure.hc)
    /\ workers = [k \in 1..workerCount |-> k]
    /\ poolPointCount = 0
    /\ requestId = [u \in FullUnits |-> 0]
    /\ pending = [u \in FullUnits |-> {}]
    /\ calls = [u \in FullUnits |-> <<>>]
    /\ ops = <<>>
    /\ inbox = [u \in FullUnits |-> <<>>]
    /\ events = [u \in FullUnits |-> <<>>]
    /\ alive = [u \in FullUnits |-> u <= workerCount]
    /\ terminated = [u \in FullUnits |-> FALSE]
    /\ positions = [u \in FullUnits |-> NullBuf]
    /\ colors = [u \in FullUnits |-> NullBuf]
    /\ pointCount = [u \in FullUnits |-> 0]
    /\ failed = [u \in FullUnits |-> FALSE]
    /\ PartIdle
    /\ page = NoPage
    /\ moved = [s \in 0..MaxPoolSize |-> {}]
    /\ staleRead = {}

\* Unit u is the first with something in its queue.
FirstIn(queue, u) == queue[u] # <<>> /\ \A v \in 1..(u - 1) : queue[v] = <<>>

\* The units run and answer in worker order, and no allocation fails.
FullNext ==
    \/ Len(ops) < MaxFullOps /\ PoolInit(MkCloud(MaxPoints, 0)) /\ UNCHANGED pageVars
    \/ Len(ops) < MaxFullOps /\ PoolSelect(QSquare) /\ UNCHANGED pageVars
    \/ \E u \in FullUnits : FirstIn(inbox, u) /\ WorkerStep(u) /\ failed' = failed
    \/ \E u \in FullUnits : FirstIn(events, u) /\ OnMessage(u) /\ UNCHANGED pageVars

FullSpec == FullInit /\ [][FullNext]_vars

\* ------------------------------------------------------------------ the decoder on its own
\* parseHeader and parsePCD are pure: here they are applied to files written
\* from known records under a known layout of the fields.
MaxRecords == 2

\* The fields of a row, their SIZE and their COUNT; count <<>> is a header
\* without a COUNT line.
Layout(fields, size, count) == [fields |-> fields, size |-> size, count |-> count]

DecodeLayouts ==
    {Layout(<<"x", "y", "z">>, <<4, 4, 4>>, <<1, 1, 1>>),
     Layout(<<"x", "y", "z", "rgb">>, <<4, 4, 4, 4>>, <<1, 1, 1, 1>>),
     Layout(<<"rgb", "z", "y", "x">>, <<4, 4, 4, 4>>, <<1, 1, 1, 1>>),
     Layout(<<"normal", "x", "y", "z">>, <<4, 4, 4, 4>>, <<3, 1, 1, 1>>),
     Layout(<<"x", "y", "z", "t">>, <<4, 4, 4, 8>>, <<1, 1, 1, 1>>),
     Layout(<<"x", "y", "z", "rgb">>, <<4, 4, 4, 4>>, <<>>)}

Record(x, y, z, rgb) == [x |-> Num(x), y |-> Num(y), z |-> Num(z), rgb |-> rgb]

\* The last two colours are NaN as floats: the exponent bits are all ones,
\* with the quiet bit set in the first and clear in the second.
DecodeRecords ==
    {Record(0, 0, 0, Rgb(255, 0, 0)),
     Record(1, -2, 0, Rgb(0, 128, 255)),
     Record(0, 0, -1, Rgba(255, 200, 10, 20)),
     Record(-1, 1, 2, Rgba(255, 130, 10, 20))}

RecordLists == UNION {[1..n -> DecodeRecords] : n \in 0..MaxRecords}

\* How many four-byte cells, or parts of an ASCII line, field i takes.
LayoutCount(layout, i) == IF layout.count = <<>> THEN 1 ELSE layout.count[i]
LayoutCells(layout, i) == (layout.size[i] * LayoutCount(layout, i)) \div 4

Known == {"x", "y", "z", "rgb"}

\* One record as a binary row and as the parts of an ASCII line: its value
\* under x, y, z and rgb, the number 3 in every other place.
RowCells(layout, rec) ==
    Flatten([i \in 1..Len(layout.fields) |->
        IF layout.fields[i] \in Known THEN <<rec[layout.fields[i]]>>
        ELSE [j \in 1..LayoutCells(layout, i) |-> Num(3)]])

\* The text of a float that is NaN is "nan", whatever its bits.
RowParts(layout, rec) ==
    Flatten([i \in 1..Len(layout.fields) |->
        IF layout.fields[i] \in Known
        THEN <<IF IsNaN(rec[layout.fields[i]]) THEN NaNField ELSE rec[layout.fields[i]]>>
        ELSE [j \in 1..LayoutCount(layout, i) |-> Num(3)]])

\* A comment of four characters, two of them of three bytes each.
WideComment == WideLine("#", <<>>, 4, 8)

HeaderLines(layout, data, points, wide) ==
    <<Line("VERSION", <<".7">>)>>
    \o (IF wide THEN <<WideComment>> ELSE <<>>)
    \o <<Line("FIELDS", layout.fields), Line("SIZE", layout.size)>>
    \o (IF layout.count = <<>> THEN <<>> ELSE <<Line("COUNT", layout.count)>>)
    \o <<Line("POINTS", <<points>>), Line("DATA", <<data>>)>>

\* What was done to the payload after it was written: nothing; its last row
\* cut off ("short"); the y of its first line replaced by a text that is no
\* number ("word") or by one that starts as a number ("trail"); the y of
\* its first record, line or binary row, replaced by Infinity ("inf").
Damages == {"none", "short", "word", "trail", "inf"}

Damaged(row, at, damage) ==
    IF damage = "word" THEN [row EXCEPT ![at] = NaNField]
    ELSE IF damage = "trail" THEN [row EXCEPT ![at] = Trailing(1)]
    ELSE IF damage = "inf" THEN [row EXCEPT ![at] = InfField]
    ELSE row

IndexIn(fields, name) == CHOOSE i \in 1..Len(fields) : fields[i] = name

\* The parts of a line before those of field i.
RECURSIVE PartsBefore(_, _)
PartsBefore(layout, i) ==
    IF i <= 1 THEN 0 ELSE PartsBefore(layout, i - 1) + LayoutCount(layout, i - 1)

\* The place of y among the parts of a line.
YPart(layout) == PartsBefore(layout, IndexIn(layout.fields, "y")) + 1

\* The four-byte cells of a row before those of field i.
RECURSIVE CellsBefore(_, _)
CellsBefore(layout, i) ==
    IF i <= 1 THEN 0 ELSE CellsBefore(layout, i - 1) + LayoutCells(layout, i - 1)

\* The place of y among the cells of a binary row.
YCell(layout) == CellsBefore(layout, IndexIn(layout.fields, "y")) + 1

WrittenFile(layout, data, recs, wide, damage) ==
    LET rows == [i \in 1..Len(recs) |->
                    IF i = 1 THEN Damaged(RowParts(layout, recs[i]), YPart(layout), damage)
                    ELSE RowParts(layout, recs[i])]
        kept == IF damage = "short" /\ recs # <<>> THEN Len(recs) - 1 ELSE Len(recs)
        cells == Flatten([i \in 1..kept |->
                    IF i = 1 /\ damage = "inf"
                    THEN Damaged(RowCells(layout, recs[i]), YCell(layout), damage)
                    ELSE RowCells(layout, recs[i])])
    IN  [lines |-> HeaderLines(layout, data, Len(recs), wide),
         rows |-> IF data = "ascii" THEN rows ELSE <<>>,
         cells |-> IF data = "ascii" THEN <<>> ELSE cells]

DecodeInputs ==
    {[kind |-> "decode", stage |-> "in", layout |-> layout, data |-> data, recs |-> recs,
      wide |-> wide, damage |-> damage, nan |-> nan,
      file |-> WrittenFile(layout, data, recs, wide, damage),
      header |-> <<>>, out |-> <<>>] :
        layout \in DecodeLayouts, data \in {"ascii", "binary", "binary_compressed"},
        recs \in RecordLists, wide \in BOOLEAN, damage \in Damages,
        nan \in {"quiet", "canonical"}}

DecodeInit ==
    /\ Constructed
    /\ client = "single"
    /\ PartIdle
    /\ pure \in DecodeInputs

\* parsePCD up to its call of parseHeader
DecodeHeader ==
    /\ pure.kind = "decode" /\ pure.stage = "in"
    /\ pure' = [pure EXCEPT !.stage = "header", !.header = parseHeader(pure.file.lines)]
    /\ KernelFrame

\* parsePCD to its end
DecodeBody ==
    /\ pure.kind = "decode" /\ pure.stage = "header"
    /\ pure' = [pure EXCEPT !.stage = "out", !.out = parsePCD(pure.file)]
    /\ KernelFrame

DecodeNext ==
    \/ DecodeHeader
    \/ DecodeBody

DecodeSpec == DecodeInit /\ [][DecodeNext]_vars

\* ================================================================== claims
PoolSelects == {i \in 1..Len(ops) : ops[i].kind = "select" /\ ops[i].pool}
Dispatched(op) == {k \in 1..Len(op.slots) : op.slots[k].id # 0}
Last(s) == s[Len(s)]
\* the claims' degenerate query: fewer than 3 lasso points, a viewport of
\* zero width or height, or a transform that has not 16 entries
DegenerateQuery(q) ==
    \/ Len(q.path) < 3
    \/ q.viewport.width = 0 \/ q.viewport.height = 0
    \/ Len(q.viewProjectionMatrix) # 16
Crashed(u) == u <= workerCount /\ ~alive[u] /\ ~terminated[u]
\* the pool's client handles the failure response of a call that is pending
FailureDelivered(u) ==
    /\ client = "pool"
    /\ OnMessage(u)
    /\ ~Head(events[u]).success
    /\ Head(events[u]).id \in pending[u]

\* C1: once the dispatch loop has visited every worker, every index of
\* [0, count) lies in exactly one dispatched range and no range holds an
\* index outside [0, count).
C1_PartitionCoverage ==
    pIndex = pWorkers =>
        /\ \A i \in 0..(pCount - 1) : Cardinality({k \in 1..Len(pRanges) : i \in pRanges[k]}) = 1
        /\ \A k \in 1..Len(pRanges) : pRanges[k] \subseteq 0..(pCount - 1)

\* a finished dispatch with an uneven last chunk and a worker left without points
C1_Witness ==
    /\ pIndex = pWorkers
    /\ pCount > 0
    /\ \E k \in 1..Len(pRanges) : pRanges[k] = {}
    /\ \E k \in 1..Len(pRanges) : pRanges[k] # {} /\ Cardinality(pRanges[k]) < ChunkSize(pCount, pWorkers)

\* C2: the index list a pool select resolves with is strictly ascending,
\* whatever the order in which the workers answered.
C2_MergedAscending ==
    \A i \in PoolSelects : ops[i].state = "resolved" => StrictlyAscending(ops[i].result)

\* a select resolved from two non-empty partial results, the second worker
\* having answered before the first
C2_Witness ==
    \E i \in PoolSelects :
        /\ ops[i].state = "resolved"
        /\ ops[i].arrivals = <<2, 1>>
        /\ SlotIndices(calls, ops[i].slots[1]) # <<>>
        /\ SlotIndices(calls, ops[i].slots[2]) # <<>>

\* C3: a pool select one of whose calls was rejected is rejected; it has no
\* merged result.
C3_FailedCallRejectsSelect ==
    \A i \in PoolSelects :
        (\E k \in Dispatched(ops[i]) : SlotState(calls, ops[i].slots[k]) = "rejected")
            => ops[i].state = "rejected" /\ ops[i].result = <<>>

\* a rejected select of which one call failed and another returned indices
C3_Witness ==
    \E i \in PoolSelects :
        /\ ops[i].state = "rejected"
        /\ \E k \in Dispatched(ops[i]) : SlotState(calls, ops[i].slots[k]) = "rejected"
        /\ \E k \in Dispatched(ops[i]) :
              /\ SlotState(calls, ops[i].slots[k]) = "resolved"
              /\ SlotIndices(calls, ops[i].slots[k]) # <<>>

\* C4: a pool select that has resolved with a merged result has no call
\* outstanding.
C4_MergeAfterAllResponded ==
    \A i \in PoolSelects :
        ops[i].state = "resolved" =>
            \A k \in Dispatched(ops[i]) : SlotState(calls, ops[i].slots[k]) # "pending"

\* a select resolved with indices after both of its calls were answered
C4_Witness ==
    \E i \in PoolSelects :
        /\ ops[i].state = "resolved"
        /\ Len(ops[i].arrivals) = 2
        /\ ops[i].result # <<>>

C6_CrashedUnitLeavesNoCallPending ==
    \A u \in Units : \A id \in 1..Len(calls[u]) :
        (Crashed(u) /\ calls[u][id].state = "pending") => ErrorEvent \in Range(events[u])

\* C7 as claimed: a call issued to a unit after it threw or crashed, and
\* before init is called on it again, is rejected: unless the unit has been
\* terminated since, it is never answered
\* with a result, and while it is unsettled its request is still queued at
\* the worker or the event that rejects it is queued at the client.
C7_FailedUnitRejectsLaterCalls ==
    \A u \in Units : \A id \in 1..Len(calls[u]) :
        (calls[u][id].afterFailure /\ ~terminated[u]) =>
            /\ calls[u][id].state # "resolved"
            /\ calls[u][id].state = "pending" =>
                  \/ \E n \in 1..Len(inbox[u]) : inbox[u][n].id = id
                  \/ \E n \in 1..Len(events[u]) : events[u][n].id = id /\ ~events[u][n].success
                  \/ ErrorEvent \in Range(events[u])

\* C8 as claimed: a call the unit answers with a failure leaves its
\* positions, colors and pointCount as they were.
C8_FailedCallChangesNothing ==
    [][\A u \in Units :
          (WorkerStep(u) /\ ~Last(events'[u]).success) =>
              /\ positions'[u] = positions[u]
              /\ colors'[u] = colors[u]
              /\ pointCount'[u] = pointCount[u]]_vars

C10_DegenerateNotDispatched ==
    \A i \in PoolSelects : DegenerateQuery(ops[i].q) => Dispatched(ops[i]) = {}

\* C10 amended: a degenerate pool select is dispatched like any other, to
\* every worker whose range is not empty; each call that resolves brings no
\* indices, and when the select resolves its merged result is empty.
C10_DegenerateResolvesEmpty ==
    \A i \in PoolSelects :
        DegenerateQuery(ops[i].q) =>
            /\ Dispatched(ops[i]) = {k \in 1..Len(ops[i].slots) : ~SlotSkipped(k - 1, ops[i].count, workerCount)}
            /\ \A k \in Dispatched(ops[i]) : SlotIndices(calls, ops[i].slots[k]) = <<>>
            /\ ops[i].state = "resolved" => ops[i].result = <<>>

\* a degenerate select dispatched to two units and resolved
C10_Witness ==
    \E i \in PoolSelects :
        /\ DegenerateQuery(ops[i].q)
        /\ Cardinality(Dispatched(ops[i])) = 2
        /\ ops[i].state = "resolved"

SelectOps == {i \in 1..Len(ops) : ops[i].kind = "select"}
\* unit u has answered an init call: the acknowledgement is queued at the
\* client or has resolved the call
InitAcknowledged(u) ==
    \/ \E id \in 1..Len(calls[u]) : calls[u][id].type = "init" /\ calls[u][id].state = "resolved"
    \/ \E n \in 1..Len(events[u]) : events[u][n].type = "init" /\ events[u][n].success
\* the point cloud of the bounds that has n points
CloudOf(n) == CHOOSE c \in Clouds : c.count = n

\* C11 as claimed, for the selects issued after init was called: a select
\* that is dispatched to a unit or resolved with a result is preceded by the
\* init acknowledgement of every unit of the client.
C11_SelectAfterEveryInitAck ==
    \A i \in SelectOps :
        (/\ \E j \in 1..(i - 1) : ops[j].kind = "init"
         /\ (Dispatched(ops[i]) # {} \/ ops[i].state = "resolved"))
            => \A u \in 1..workerCount : InitAcknowledged(u)

\* C12 as claimed: of two pool selects, the one issued first completes
\* first, and a select that resolves brings the indices of its own query
\* over the point cloud loaded when it was issued.
C12_OverlappingSelectsFifo ==
    /\ \A i, j \in PoolSelects : (i < j /\ ops[j].state # "waiting") => ops[i].state # "waiting"
    /\ \A i \in PoolSelects :
          ops[i].state = "resolved" =>
              ops[i].result = handleSelect(CloudOf(ops[i].count).positions, ops[i].count, ops[i].q,
                                           0, ops[i].count).indices

\* the color triple of point i in the flat buffer c
Triple(c, i) == <<c[3 * i + 1], c[3 * i + 2], c[3 * i + 3]>>
White == <<1, 1, 1>>

SameQueryTwice(i, j) ==
    /\ i < j
    /\ ops[i].q = ops[j].q
    /\ \A k \in i..j : ops[k].kind = "select"
    /\ \A u \in 1..workerCount : ~terminated[u]

SameQuerySameResult ==
    \A i, j \in SelectOps :
        (SameQueryTwice(i, j) /\ ops[i].state = "resolved" /\ ops[j].state = "resolved")
            => ops[i].result = ops[j].result

\* C16: a unit that handles a select leaves its positions, colors and
\* pointCount as they were, and two selects of the same query with nothing
\* but selects between them resolve with the same index list.
C16_SelectIsStateless ==
    [][/\ \A u \in Units :
             (WorkerStep(u) /\ Head(inbox[u]).type = "select") =>
                 /\ positions'[u] = positions[u]
                 /\ colors'[u] = colors[u]
                 /\ pointCount'[u] = pointCount[u]
       /\ SameQuerySameResult']_vars

\* the same query resolved twice with a non-empty index list on the pool,
\* a select of another query having run in between
C16_Witness ==
    \E i, j \in PoolSelects :
        /\ SameQueryTwice(i, j)
        /\ \E k \in i..j : ops[k].q # ops[i].q /\ ops[k].state = "resolved"
        /\ ops[i].state = "resolved" /\ ops[j].state = "resolved"
        /\ ops[i].result # <<>>
        /\ ops[i].result = ops[j].result


\* ---- the kernel's claims, over the kernel on its own
\* The edge from (xi, yi) to (xj, yj) toggles at the point (pxn/pxd, pyn/pyd):
\* (yi > py) != (yj > py) and px < (xj - xi) * (py - yi) / (yj - yi) + xi,
\* cleared of its divisions; an edge with yi = yj does not toggle.
ClaimEdgeToggles(pxn, pxd, pyn, pyd, xi, yi, xj, yj) ==
    /\ yi # yj
    /\ (yi * pyd > pyn) # (yj * pyd > pyn)
    /\ LET rise == IF yj > yi THEN yj - yi ELSE yi - yj
           run == IF yj > yi THEN xj - xi ELSE xi - xj
       IN  (pxn - xi * pxd) * pyd * rise < run * (pyn - yi * pyd) * pxd

\* Each path point with the next one, the last with the first.
ClaimToggles(pxn, pxd, pyn, pyd, path) ==
    {i \in 1..Len(path) :
        ClaimEdgeToggles(pxn, pxd, pyn, pyd, path[i][1], path[i][2],
                         path[(i % Len(path)) + 1][1], path[(i % Len(path)) + 1][2])}

ClaimContains(pxn, pxd, pyn, pyd, path) ==
    Cardinality(ClaimToggles(pxn, pxd, pyn, pyd, path)) % 2 = 1

KernelDone(kind) == pure.kind = kind /\ pure.stage = "out"

\* C18: isPointInPolygon is true exactly when an odd number of edges toggle,
\* horizontal edges never toggling; the square contains (5,5) and not (15,15).
C18_CrossingParity ==
    KernelDone("contain") =>
        /\ pure.out = ClaimContains(pure.px, 1, pure.py, 1, pure.path)
        /\ (pure.path = SquarePath /\ pure.px = 5 /\ pure.py = 5) => pure.out
        /\ (pure.path = SquarePath /\ pure.px = 15 /\ pure.py = 15) => ~pure.out

C18_Witness ==
    /\ KernelDone("contain")
    /\ pure.path = SquarePath /\ pure.px = 5 /\ pure.py = 5
    /\ pure.out

\* Component r of the clip-space point, the matrix column-major: column c
\* is e[4c .. 4c + 3] (indices from 0).
ClaimClipAt(e, v, r) == e[r] * v[1] + e[4 + r] * v[2] + e[8 + r] * v[3] + e[12 + r]

\* ndc.z >= 1, for cw # 0
ClaimBeyondFar(cz, cw) == IF cw > 0 THEN cz >= cw ELSE cz <= cw

\* The point at screenX = (ndc.x + 1) * 0.5 * width and screenY =
\* (-ndc.y + 1) * 0.5 * height passes the test against the stored path;
\* boxed says whether the bounding box of the path takes part.
ClaimScreenTest(v, q, boxed) ==
    LET e == q.viewProjectionMatrix
        cx == ClaimClipAt(e, v, 1)
        cy == ClaimClipAt(e, v, 2)
        cw == ClaimClipAt(e, v, 4)
        s == IF cw > 0 THEN 1 ELSE -1
        d == 2 * cw * s
        sx == (cx + cw) * q.viewport.width * s
        sy == (cw - cy) * q.viewport.height * s
        xs == {q.path[i][1] : i \in 1..Len(q.path)}
        ys == {q.path[i][2] : i \in 1..Len(q.path)}
    IN  /\ boxed => /\ \E x \in xs : x * d <= sx
                    /\ \E x \in xs : x * d >= sx
                    /\ \E y \in ys : y * d <= sy
                    /\ \E y \in ys : y * d >= sy
        /\ ClaimContains(sx, d, sy, d, PathFloats(q.path))

ClaimSelected(v, q, boxed) ==
    /\ ~DegenerateQuery(q)
    /\ ClaimClipAt(q.viewProjectionMatrix, v, 4) # 0
    /\ ~ClaimBeyondFar(ClaimClipAt(q.viewProjectionMatrix, v, 3), ClaimClipAt(q.viewProjectionMatrix, v, 4))
    /\ ClaimScreenTest(v, q, boxed)

\* C17: the selection with the bounding-box filter is the selection of the
\* containment test alone.
C17_FilterChangesNothing ==
    KernelDone("select") =>
        pure.out = (IF ClaimSelected(pure.point, pure.q, FALSE) THEN <<0>> ELSE <<>>)

\* C19: no point with clip-space w = 0 or ndc.z >= 1 is selected; every
\* other point is tested at its screen position, the matrix read column-major.
C19_ClipAndScreen ==
    KernelDone("select") =>
        pure.out = (IF ClaimSelected(pure.point, pure.q, TRUE) THEN <<0>> ELSE <<>>)

\* A point beyond the far plane whose screen position is inside the path.
C19_Witness ==
    /\ KernelDone("select")
    /\ pure.q = QSquare
    /\ pure.point = <<0, 0, 1>>
    /\ pure.out = <<>>


\* ---- the application's claims
\* C20: positions.length = colors.length = 3 * count for the point cloud of
\* Home, whatever was decoded and colored.
C20_CloudLengths ==
    page.loaded =>
        /\ Len(page.pointCloud.positions) = 3 * page.pointCloud.count
        /\ Len(page.pointCloud.colors) = 3 * page.pointCloud.count


\* C13: no side reads or writes a buffer after it sent it in a transfer list.
C13_NoAccessAfterTransfer == staleRead = {}

\* Two color calls answered: the main thread sent the indices of both away,
\* the worker the buffer of its first result before it wrote colors again.
C13_Witness ==
    \E i, j \in 1..Len(ops) :
        /\ i < j
        /\ ops[i].kind = "color" /\ ops[i].state = "resolved"
        /\ ops[j].kind = "color" /\ ops[j].state = "resolved"
        /\ {<<"indices", i>>, <<"indices", j>>} \subseteq moved[0]

CloudBuffers == {<<"positions", 0>>, <<"colors", 0>>}

\* C14: init hands a unit the positions and colors of its payload and leaves
\* every other unit's alone; the buffers of Home's point cloud are not moved
\* away; a color call handled by a unit changes neither another unit's
\* buffers nor Home's point cloud.
C14_InitCopies ==
    [][/\ CloudBuffers \cap moved'[0] = {}
       /\ \A u \in Units :
            (WorkerStep(u) /\ Head(inbox[u]).type \in {"init", "color"}) =>
                /\ Head(inbox[u]).type = "init" =>
                      /\ positions'[u] = Buf(Head(inbox[u]).payload.positions)
                      /\ colors'[u] = Buf(Head(inbox[u]).payload.colors)
                /\ \A v \in Units \ {u} : positions'[v] = positions[v] /\ colors'[v] = colors[v]
                /\ page'.pointCloud = page.pointCloud]_vars

\* The unit colored a point of the cloud Home still shows uncolored.
C14_Witness ==
    /\ client = "single"
    /\ page.loaded
    /\ ~colors[1].null
    /\ positions[1].data = page.pointCloud.positions
    /\ Len(colors[1].data) = Len(page.pointCloud.colors)
    /\ colors[1].data # page.pointCloud.colors
    /\ CloudBuffers \cap moved[0] = {}

\* The step in which handleFileUpload learns that decoding failed: parsePCD
\* throws on the main thread, or the parse call of the pool is rejected.
DecodeFailureReceived ==
    \/ /\ client = "single"
       /\ page.reading # <<>> /\ page'.reading = <<>>
       /\ parsePCD(page.reading[1]).thrown
    \/ \E i \in 1..Len(ops) :
          /\ ops[i].kind = "parse"
          /\ ops[i].state = "waiting"
          /\ ops'[i].state = "rejected"

\* C22: when decoding fails the caller gets a failure and no point cloud, and
\* the application keeps the point cloud and the selection it had and is no
\* longer loading.
C22_FailedDecodeKeepsPage ==
    [][DecodeFailureReceived =>
          /\ page'.pointCloud = page.pointCloud
          /\ page'.selectedIndices = page.selectedIndices
          /\ page'.loaded = page.loaded
          /\ page'.todo = <<>>
          /\ ~page'.isLoading]_vars

\* A file with a payload of one row under POINTS 2 failed to decode while a
\* cloud with a selection was loaded.
C22_Witness ==
    /\ page.lastUpload = "failed"
    /\ page.loaded
    /\ page.selectedIndices # <<>>
    /\ page.pointCloud.count > 0
    /\ ~page.isLoading

\* C27: a selection of any size reaches the application's state: when the
\* select of a lasso resolves, the selection stored is its merged result,
\* whole.
C27_SelectionStoredWhole ==
    [][\A i \in 1..Len(ops) :
          (/\ ops[i].kind = "select"
           /\ ops[i].state = "waiting"
           /\ ops'[i].state = "resolved") => page'.selectedIndices = ops'[i].result]_vars

\* ---- the decoder's claims, over the decoder on its own
Decoded == pure.kind = "decode" /\ pure.stage = "out"

\* C21: when the DATA line of the header names an encoding other than ascii
\* and binary, decoding throws: it returns no point cloud, and none of zero
\* points.
C21_UnsupportedEncodingFails ==
    (Decoded /\ pure.data \notin {"ascii", "binary"}) => pure.out.thrown

\* What parsePCD returns for the file of the decoded state as it was
\* written, before any damage.
CleanDecode ==
    parsePCD(WrittenFile(pure.layout, pure.data, pure.recs, pure.wide, "none")).data

\* C23: an ASCII line whose y is not a number is skipped and the parse goes
\* on: the count is one less than that of the clean payload and the other
\* records are decoded as they are from the clean payload, in order.
C23_MalformedLineSkipped ==
    (Decoded /\ pure.data = "ascii" /\ pure.damage \in {"word", "trail"} /\ pure.recs # <<>>) =>
        /\ ~pure.out.thrown
        /\ pure.out.data.count = CleanDecode.count - 1
        /\ pure.out.data.positions = SubSeq(CleanDecode.positions, 4, Len(CleanDecode.positions))
        /\ pure.out.data.colors = SubSeq(CleanDecode.colors, 4, Len(CleanDecode.colors))

\* The offset the format gives field j of a layout: the bytes of the fields
\* before it.
RECURSIVE ClaimOffset(_, _)
ClaimOffset(layout, j) ==
    IF j <= 1 THEN 0
    ELSE ClaimOffset(layout, j - 1) + layout.size[j - 1] * LayoutCount(layout, j - 1)

KnownPositions(recs) == Flatten([i \in 1..Len(recs) |-> <<recs[i].x.v, recs[i].y.v, recs[i].z.v>>])

\* The numbers of a buffer as text: a number the decoder took from the bits
\* of something else is no integer here and compares with none.
Shown(buffer) == [i \in 1..Len(buffer) |-> ToString(buffer[i])]

HeaderRead == pure.kind = "decode" /\ pure.stage \in {"header", "out"}

ClaimOffsetsRight ==
    HeaderRead =>
        /\ \A j \in 1..Len(pure.layout.fields) :
              OffsetOf(pure.header, pure.layout.fields[j]) = ClaimOffset(pure.layout, j)
        /\ pure.header.rowSize = ClaimOffset(pure.layout, Len(pure.layout.fields) + 1)

ClaimRoundTrip ==
    (Decoded /\ pure.data = "binary" /\ pure.damage = "none") =>
        /\ ~pure.out.thrown
        /\ pure.out.data.count = Len(pure.recs)
        /\ Shown(pure.out.data.positions) = Shown(KnownPositions(pure.recs))

\* C24: the offset of a field is the sum of size * count over the fields
\* before it and rowSize the sum over all fields; a binary payload written
\* with known x, y, z at those offsets is decoded to those values and to
\* the stated count.
C24_OffsetsAndRoundTrip == ClaimOffsetsRight /\ ClaimRoundTrip

\* ((v >> 16) & 0xff) / 255, ((v >> 8) & 0xff) / 255, (v & 0xff) / 255 of the
\* pattern v = <<a, r, g, b>>; a quotient that is no integer as <<n, 255>>.
ClaimChannel(byte) == IF byte = 255 THEN 1 ELSE IF byte = 0 THEN 0 ELSE <<byte, 255>>
ClaimColor(f) == <<ClaimChannel(f.v[2]), ClaimChannel(f.v[3]), ClaimChannel(f.v[4])>>

KnownColors(layout, recs) ==
    Flatten([i \in 1..Len(recs) |->
        IF "rgb" \in Range(layout.fields) THEN ClaimColor(recs[i].rgb) ELSE <<1, 1, 1>>])

\* C25: the colour decoded for a point is made of bits 16-23, 8-15 and 0-7
\* of the pattern of its rgb field, each over 255; without an rgb field it
\* is (1, 1, 1).
C25_ColorFromBits ==
    (/\ Decoded /\ pure.damage = "none" /\ ~pure.wide
     /\ pure.data \in {"ascii", "binary"}
     /\ pure.data = "ascii" => \A i \in 1..Len(pure.recs) : ~IsNaN(pure.recs[i].rgb)) =>
        /\ ~pure.out.thrown
        /\ Shown(pure.out.data.colors) = Shown(KnownColors(pure.layout, pure.recs))

\* C33: a record is taken exactly when its x, y and z are finite: no
\* position of the decoded cloud is infinite, a record whose y is Infinity
\* adds nothing to positions, colors or count, and every record of finite
\* coordinates is taken.
C33_OnlyFiniteRecordsTaken ==
    (/\ Decoded /\ ~pure.wide
     /\ pure.data \in {"ascii", "binary"}
     /\ pure.damage \in {"none", "inf"}) =>
        /\ ~pure.out.thrown
        /\ \A i \in 1..Len(pure.out.data.positions) :
              Shown(pure.out.data.positions)[i] # ToString("Infinity")
        /\ pure.out.data.count =
              Len(pure.recs) - (IF pure.damage = "inf" /\ pure.recs # <<>> THEN 1 ELSE 0)
        /\ Len(pure.out.data.positions) = 3 * pure.out.data.count
        /\ Len(pure.out.data.colors) = 3 * pure.out.data.count

\* ---- the pool's claims, over the pool at its full size
ClaimPoolSize(cores) ==
    IF cores < 2 THEN 2 ELSE IF cores > 12 THEN 12 ELSE cores

ClaimRangeEmpty(k, count, wc) == k * ((count + wc - 1) \div wc) >= count

\* What worker k (from 0) finds when it sweeps its range of the cloud of
\* count points for q, an empty range as well.
ClaimSweep(k, count, q) ==
    handleSelect(MkCloud(count, 0).positions, count, q,
                 StartIndex(k, count, workerCount), EndIndex(k, count, workerCount)).indices

\* C30: a select of the pool has one slot for every worker, in worker order;
\* the slot of a worker with an empty range is resolved with no index, and
\* the merged result is what the sweeps of all the ranges, the empty ones
\* too, give in worker order.
C30_EmptyRangeKeepsItsSlot ==
    \A i \in 1..Len(ops) :
        ops[i].kind = "select" /\ ops[i].pool =>
            /\ Len(ops[i].slots) = workerCount
            /\ \A k \in 1..workerCount :
                  /\ ops[i].slots[k].unit = workers[k]
                  /\ ClaimRangeEmpty(k - 1, ops[i].count, workerCount) =>
                        /\ ClaimSweep(k - 1, ops[i].count, ops[i].q) = <<>>
                        /\ SlotState(calls, ops[i].slots[k]) = "resolved"
                        /\ SlotIndices(calls, ops[i].slots[k]) = <<>>
            /\ ops[i].state = "resolved" =>
                  ops[i].result = Flatten([k \in 1..workerCount |-> ClaimSweep(k - 1, ops[i].count, ops[i].q)])

\* More workers than points: a select over the initialized pool resolved
\* with the points of the first workers, the last worker's range is empty.
C30_Witness ==
    /\ workerCount > MaxPoints
    /\ Len(ops) = 2
    /\ ops[1].kind = "init" /\ ops[1].state = "resolved"
    /\ ops[2].kind = "select" /\ ops[2].state = "resolved"
    /\ ops[2].count = MaxPoints
    /\ ops[2].result # <<>>
    /\ ClaimRangeEmpty(workerCount - 1, ops[2].count, workerCount)
    /\ requestId[workerCount] = 1

\* ---- the pending map's claims, over responses and error events
\* The unit handles a response: the head of its event queue is taken.
ResponseHandled(u) ==
    /\ events[u] # <<>>
    /\ Head(events[u]).kind = "message"
    /\ events'[u] = Tail(events[u])

\* The unit handles its error event.
ErrorHandled(u) ==
    /\ events[u] # <<>>
    /\ Head(events[u]).kind = "error"
    /\ events'[u] = Tail(events[u])

\* C28: on each unit the request ids only grow, the call issued with id n
\* is the n-th call and no later call gets an id already given; a response
\* with id n settles the call n alone and takes n out of the pending map;
\* a response whose id is not pending changes nothing; a call that is
\* settled is never settled again, whatever the order of responses and
\* error events.
C28_IdsAndSingleSettlement ==
    [][\A u \in Units :
        /\ requestId'[u] >= requestId[u]
        /\ Len(calls'[u]) = requestId'[u]
        /\ pending'[u] \ pending[u] = (requestId[u] + 1)..requestId'[u]
        /\ \A i \in 1..Len(inbox'[u]) :
              inbox'[u][i].id <= requestId[u] => \E j \in 1..Len(inbox[u]) : inbox[u][j] = inbox'[u][i]
        /\ \A id \in 1..requestId[u] :
              calls[u][id].state # "pending" => calls'[u][id] = calls[u][id]
        /\ ResponseHandled(u) =>
              LET n == Head(events[u]).id
              IN  /\ n \notin pending'[u]
                  /\ \A id \in 1..requestId[u] : id # n => calls'[u][id] = calls[u][id]
                  /\ pending'[u] = pending[u] \ {n}
                  /\ n \in pending[u] => calls'[u][n].state # "pending"
                  /\ n \notin pending[u] => calls'[u] = calls[u] /\ ops' = ops]_vars

\* A response is about to be handled whose call the error event has settled
\* already, with the unit's next call still pending.
C28_Witness ==
    \E u \in Units :
        /\ events[u] # <<>>
        /\ Head(events[u]).kind = "message"
        /\ Head(events[u]).success
        /\ Head(events[u]).id = 1
        /\ requestId[u] >= 2
        /\ calls[u][1].state = "rejected"
        /\ pending[u] = {2}

\* C29: the handling of a unit's error event rejects every call then in the
\* unit's pending map and leaves the map empty, in that one step; a call so
\* rejected stays rejected when its response comes late.
C29_ErrorRejectsAndClears ==
    [][\A u \in Units :
        /\ ErrorHandled(u) =>
              /\ pending'[u] = {}
              /\ \A id \in pending[u] : calls'[u][id].state = "rejected"
              /\ \A id \in 1..requestId[u] : id \notin pending[u] => calls'[u][id] = calls[u][id]
        /\ \A id \in 1..requestId[u] :
              calls[u][id].state = "rejected" /\ ResponseHandled(u) /\ Head(events[u]).id = id
                  => calls'[u][id] = calls[u][id] /\ pending'[u] = pending[u]]_vars

\* Two calls were rejected by the error event and the answer to the second
\* of them is about to be handled.
C29_Witness ==
    \E u \in Units :
        /\ requestId[u] >= 2
        /\ calls[u][1].state = "rejected"
        /\ calls[u][2].state = "rejected"
        /\ pending[u] = {}
        /\ events[u] # <<>>
        /\ Head(events[u]).kind = "message"
        /\ Head(events[u]).success
        /\ Head(events[u]).id = 2


\* ---- the sweep's claims
\* Unit u answers the select at the head of its queue with a result.
SelectAnswered(u) ==
    /\ inbox[u] # <<>>
    /\ Head(inbox[u]).type = "select"
    /\ inbox'[u] = Tail(inbox[u])
    /\ Len(events'[u]) = Len(events[u]) + 1
    /\ events'[u][Len(events'[u])].success

\* C31: the result of a unit's select holds only indices of the range the
\* message gave it, in strictly ascending order, and the sweep read no
\* point outside that range.
C31_SweepWithinRange ==
    [][\A u \in Units :
        SelectAnswered(u) =>
            LET m == Head(inbox[u])
                result == events'[u][Len(events'[u])].value
                r == handleSelect(positions[u].data, pointCount[u], m.payload.q,
                                  m.payload.startIndex, m.payload.endIndex)
            IN  /\ \A k \in 1..Len(result) :
                      m.payload.startIndex <= result[k] /\ result[k] < m.payload.endIndex
                /\ \A k \in 1..(Len(result) - 1) : result[k] < result[k + 1]
                /\ \A i \in r.read : m.payload.startIndex <= i /\ i < m.payload.endIndex]_vars

\* The second worker of the pool has answered a select over the range
\* [2, 3) of a cloud of three points with the one point of its range.
C31_Witness ==
    /\ workerCount = 2
    /\ pointCount[2] = MaxPoints
    /\ events[2] # <<>>
    /\ Head(events[2]).kind = "message"
    /\ Head(events[2]).type = "select"
    /\ Head(events[2]).success
    /\ Head(events[2]).value = <<MaxPoints - 1>>


\* ---- the pool's init
PoolInits == {i \in 1..Len(ops) : ops[i].kind = "init" /\ ops[i].pool}

ShortLassoCompleted ==
    /\ page.drawn # <<>>
    /\ Len(page.drawn) < 3
    /\ page'.drawn = <<>>

\* C34: a lasso completed with fewer than 3 points sends no query to a
\* worker, starts no selection and leaves the selected indices, the
\* selection mode and the point cloud of the application as they were.
C34_ShortLassoSelectsNothing ==
    [][ShortLassoCompleted =>
          /\ requestId' = requestId
          /\ inbox' = inbox
          /\ calls' = calls
          /\ ops' = ops
          /\ page'.awaits = page.awaits
          /\ page'.selectedIndices = page.selectedIndices
          /\ page'.selectionMode = page.selectionMode
          /\ page'.pointCloud = page.pointCloud]_vars

\* With a selection stored from a lasso before, a path of two points is
\* drawn and about to be completed.
C34_Witness ==
    /\ page.loaded
    /\ page.selectionMode = "lasso"
    /\ page.selectedIndices # <<>>
    /\ Len(page.drawn) = 2
    /\ \E i \in 1..Len(ops) : ops[i].kind = "select" /\ ops[i].state = "resolved"


\* ---- the order of a unit's messages
\* The cloud of the init of the pool called last before operation i.
InitBefore(i) ==
    LET before == {j \in 1..(i - 1) : ops[j].kind = "init"}
    IN  IF before = {} THEN 0 ELSE CHOOSE j \in before : \A k \in before : k <= j

\* C35: a unit of the pool takes its messages in the order they were sent;
\* when it takes a select, it holds the cloud of the init called last
\* before that select and the range of the select lies within [0, pointCount]
\* of that cloud.
C35_SelectWithinCloudHeld ==
    [][\A u \in Units :
        Len(inbox'[u]) < Len(inbox[u]) =>
            LET m == Head(inbox[u])
            IN  /\ inbox'[u] = Tail(inbox[u])
                /\ \A n \in 2..Len(inbox[u]) : m.id < inbox[u][n].id
                /\ events'[u][Len(events'[u])].id = m.id
                /\ m.type = "select" =>
                      LET i == calls[u][m.id].op
                      IN  /\ InitBefore(i) # 0
                          /\ ~positions[u].null
                          /\ pointCount[u] = ops[InitBefore(i)].count
                          /\ Len(positions[u].data) = 3 * pointCount[u]
                          /\ 0 <= m.payload.startIndex
                          /\ m.payload.startIndex < m.payload.endIndex
                          /\ m.payload.endIndex <= pointCount[u]]_vars

\* A unit that holds no point yet has in its queue the init of a cloud of
\* MaxPoints points, a select over a range of it, the init of the empty
\* cloud.
C35_Witness ==
    \E u \in Units :
        /\ pointCount[u] = 0
        /\ Len(inbox[u]) = 3
        /\ inbox[u][1].type = "init" /\ inbox[u][1].payload.count = MaxPoints
        /\ inbox[u][2].type = "select" /\ inbox[u][2].payload.endIndex > 0
        /\ inbox[u][3].type = "init" /\ inbox[u][3].payload.count = 0


\* ---- the selection and the cloud on show
\* C36: every index of the application's selectedIndices is an index of a
\* point of the point cloud loaded, whenever files are loaded, lassos
\* completed and responses received.
C36_SelectionWithinCloud ==
    \A n \in 1..Len(page.selectedIndices) :
        0 <= page.selectedIndices[n] /\ page.selectedIndices[n] < page.pointCloud.count


\* The select of a lasso is rejected in this step.
LassoRejected(i) ==
    /\ ops[i].kind = "select"
    /\ page.awaits[i].handler = "lasso"
    /\ ops[i].state = "waiting"
    /\ ops'[i].state = "rejected"

\* C37: the rejection of the select of a lasso reaches the catch of the
\* viewer and no further: the selected indices, the selection mode and the
\* point cloud of the application stay as they are, and the point cloud is
\* the one the lasso was completed on.
C37_RejectedSelectKeepsPage ==
    [][\A i \in 1..Len(ops) :
          LassoRejected(i) =>
              /\ page'.selectedIndices = page.selectedIndices
              /\ page'.selectionMode = page.selectionMode
              /\ page'.pointCloud = page.pointCloud
              /\ page'.pointCloud = page.awaits[i].cloud]_vars

\* A lasso was rejected while the selection of an earlier lasso is stored
\* and the application is in lasso mode.
C37_Witness ==
    /\ page.selectionMode = "lasso"
    /\ page.selectedIndices # <<>>
    /\ \E i \in 1..Len(ops) :
          ops[i].kind = "select" /\ ops[i].state = "rejected" /\ page.awaits[i].handler = "lasso"


\* ---- the pool against the single unit
\* What a unit holding the cloud of count points returns for q when the
\* message names no range: the sweep of [0, count).
ClaimWholeSweep(count, q) ==
    LET whole == [q |-> q, startIndex |-> Undefined, endIndex |-> Undefined]
    IN  handleSelect(CloudOf(count).positions, count, q,
                     RangeStart(whole), RangeEnd(whole, count)).indices

\* C38: the index list a select of a pool of one or more workers resolves
\* with is the list one unit returns for the same query over the whole
\* cloud, whatever the number of workers (slots holds one entry per worker
\* the select mapped over).
C38_PoolEqualsSingleUnit ==
    \A i \in PoolSelects :
        (ops[i].state = "resolved" /\ Len(ops[i].slots) >= 1) =>
            ops[i].result = ClaimWholeSweep(ops[i].count, ops[i].q)

\* A pool of two workers resolved a select over MaxPoints points with the
\* first and the last point, one from each worker.
C38_Witness ==
    /\ workerCount = 2
    /\ \E i \in PoolSelects :
          /\ ops[i].state = "resolved"
          /\ Len(ops[i].slots) = 2
          /\ ops[i].count = MaxPoints
          /\ ops[i].result = <<0, MaxPoints - 1>>
          /\ ops[i].result = ClaimWholeSweep(MaxPoints, ops[i].q)


\* ---- terminate
\* a rejection of call id of unit u is still to be handled by the client
RejectionQueued(u, id) ==
    \/ \E n \in 1..Len(events[u]) : events[u][n].id = id /\ ~events[u][n].success
    \/ ErrorEvent \in Range(events[u])

\* the operation was started on a pool whose workers had been terminated
OnTerminatedPool(op) == op.pool /\ op.slots = <<>>

\* C39 as claimed: terminate() leaves no caller unresolved: a call of a
\* terminated unit, outstanding at the termination or issued after it, is
\* not answered with a result and, while it is unsettled, its rejection is
\* on its way; an operation started on a terminated pool is not answered
\* with a result either.
C39_TerminateLeavesNoCallerUnresolved ==
    /\ \A u \in Units : \A id \in 1..Len(calls[u]) :
          (terminated[u] /\ calls[u][id].state = "pending") => RejectionQueued(u, id)
    /\ \A i \in 1..Len(ops) :
          OnTerminatedPool(ops[i]) => ops[i].state # "resolved"

====
